---- MODULE Spec2Model ----
(***************************************************************************)
(* Graphing-Game: equation curves, ball physics and star collection.       *)
(*                                                                         *)
(* Numbers.  The program computes in IEEE doubles; the model computes in   *)
(* fixed point.  One quantum is 1e-4 world units, the snap epsilon of      *)
(* updateBalls and the smallest constant of the physics, so every constant *)
(* of the physics is a whole number of quanta.  Velocities are quanta per  *)
(* second, times are milliseconds, unit vectors are scaled by Unit.        *)
(* A product followed by a division is rounded to the nearest quantum      *)
(* (MulDiv); Math.hypot is rounded up (Hypot), which keeps every test      *)
(* "hypot(dx, dy) <= k" exact for whole k.                                 *)
(***************************************************************************)
EXTENDS Integers, Sequences, FiniteSets, TLC

VARIABLES
  world,      \* Game.world: {xMin, xMax, yMin, yMax}
  balls,      \* Game.balls / the balls argument: sequence of Ball
  stars,      \* Game.stars / the stars argument: sequence of star
  curves,     \* Game.curves / the curves argument: sequence of curve
  preview,    \* Game.preview: the preview curve, or NoPreview
  game,       \* the Game's other fields, and whether the frame loop runs
  call,       \* the last call made and what it observed
  made,       \* number of Ball objects constructed so far (object identities)
  steps       \* number of calls (PhysSpec) or frames (Spec) so far

vars == <<world, balls, stars, curves, preview, game, call, made, steps>>

----------------------------------------------------------------------------
(* Fixed-point arithmetic                                                  *)

\* quanta per world unit: the snap epsilon 1e-4 is one quantum
Unit == 10000

Abs(n) == IF n < 0 THEN -n ELSE n
Min(a, b) == IF a < b THEN a ELSE b
Max(a, b) == IF a > b THEN a ELSE b
Sign(n) == IF n < 0 THEN -1 ELSE IF n > 0 THEN 1 ELSE 0

\* v has been computed: an iteration of a loop starts from a state that has
\* been computed
Ready(v) == v = v

\* the largest integer the arithmetic carries
MaxInt == (2^30 - 1) * 2 + 1

\* <<q, r>> with a*b = q*c + r and 0 <= r < c, for a, b >= 0 and 0 < c,
\* computed without forming a product that exceeds MaxInt.
\* the pair for a * b, given the pair h for a * (b \div 2)
Doubled(h, a, b, c) ==
  <<2 * h[1] + (b % 2) * (a \div c) + (2 * h[2] + (b % 2) * (a % c)) \div c,
    (2 * h[2] + (b % 2) * (a % c)) % c>>

\* the pair p with k added to the quotient
Plus(p, k) == <<p[1] + k, p[2]>>

RECURSIVE MulDivNat(_, _, _)
MulDivNat(a, b, c) ==
  IF b = 0 THEN <<0, 0>>
  ELSE IF a <= MaxInt \div b THEN <<(a * b) \div c, (a * b) % c>>
  ELSE IF a >= c THEN Plus(MulDivNat(a % c, b, c), (a \div c) * b)
  ELSE IF b >= c THEN Plus(MulDivNat(a, b % c, c), a * (b \div c))
  ELSE Doubled(MulDivNat(a, b \div 2, c), a, b, c)

\* the quotient of the pair p rounded to nearest, ties up
Rounded(p, c) == p[1] + (IF 2 * p[2] >= c THEN 1 ELSE 0)

\* a*b/c rounded to the nearest integer (ties away from zero), c > 0
MulDiv(a, b, c) ==
  Sign(a) * Sign(b) * Rounded(MulDivNat(Abs(a), Abs(b), c), c)

\* least k in lo..hi with k*k >= n, given (lo-1)^2 < n <= hi^2
RECURSIVE CeilSqrtIn(_, _, _)
CeilSqrtIn(n, lo, hi) ==
  IF lo >= hi THEN hi
  ELSE LET mid == (lo + hi) \div 2
       IN IF mid * mid >= n THEN CeilSqrtIn(n, lo, mid)
                            ELSE CeilSqrtIn(n, mid + 1, hi)

CeilSqrt(n) == IF n <= 0 THEN 0 ELSE CeilSqrtIn(n, 1, 46340)

\* Math.hypot(dx, dy), rounded up to a whole quantum.  Beyond HypotSpan the
\* larger coordinate is returned: a lower bound above every threshold the
\* program compares a distance with.
HypotSpan == 32000
Hypot(dx, dy) ==
  IF Abs(dx) > HypotSpan \/ Abs(dy) > HypotSpan
    THEN Max(Abs(dx), Abs(dy))
    ELSE CeilSqrt(dx * dx + dy * dy)

----------------------------------------------------------------------------
(* utils.js                                                                *)

clamp(v, lo, hi) == Max(lo, Min(hi, v))

\* closest point Q on segment AB to P; t is scaled by Unit
closestPointOnSegment(px, py, ax, ay, bx, by) ==
  LET abx == bx - ax
      aby == by - ay
      apx == px - ax
      apy == py - ay
      ab2 == abx * abx + aby * aby
      dot == apx * abx + apy * aby
  IN IF ab2 = 0 \/ dot <= 0 THEN [x |-> ax, y |-> ay, t |-> 0]
     ELSE IF dot >= ab2 THEN [x |-> ax + abx, y |-> ay + aby, t |-> Unit]
     ELSE [x |-> ax + MulDiv(dot, abx, ab2),
           y |-> ay + MulDiv(dot, aby, ab2),
           t |-> MulDiv(dot, Unit, ab2)]

\* unit vector of (x, y), scaled by Unit; (0, 0) for the zero vector
normalize(x, y) ==
  LET m == Hypot(x, y)
  IN IF m = 0 THEN [x |-> 0, y |-> 0]
     ELSE [x |-> MulDiv(x, Unit, m), y |-> MulDiv(y, Unit, m)]

----------------------------------------------------------------------------
(* physics.js: Ball and updateBalls                                        *)

\* out.push(null): the break marker of a polyline
Null == [x |-> 0, y |-> 0, nul |-> TRUE]
Pt(x, y) == [x |-> x, y |-> y, nul |-> FALSE]

\* new Ball(x, y, radius); id stands for the object's identity
Ball(id, x, y, radius) ==
  [id |-> id, x |-> x, y |-> y, vx |-> 0, vy |-> 0, r |-> radius,
   collected |-> FALSE, oob |-> FALSE]

\* broad-phase box padding 0.05, contact margin 0.02, snap epsilon 1e-4,
\* friction 0.995 (per mille), milliseconds per second
BroadPhasePad == 500
ContactMargin == 200
SnapEps == 1
Friction == 995
PerMille == 1000

\* the ball has exited a world boundary
exitedBounds(b, bounds) ==
  \/ (b.x + b.r) < bounds.xMin
  \/ (b.x - b.r) > bounds.xMax
  \/ (b.y + b.r) < bounds.yMin
  \/ (b.y - b.r) > bounds.yMax

\* let best = null
NoBest ==
  [found |-> FALSE, ci |-> 0, si |-> 0, q |-> [x |-> 0, y |-> 0, t |-> 0],
   dist |-> 0, tx |-> 0, ty |-> 0, nx |-> 0, ny |-> 0]

\* the broad phase were the box expanded by 0.05 only, without the radius
inBroadPhaseUnpadded(b, a, c) ==
  LET minx == Min(a.x, c.x) - BroadPhasePad
      maxx == Max(a.x, c.x) + BroadPhasePad
      miny == Min(a.y, c.y) - BroadPhasePad
      maxy == Max(a.y, c.y) + BroadPhasePad
  IN ~(b.x < minx \/ b.x > maxx \/ b.y < miny \/ b.y > maxy)

\* broad-phase AABB of segment a-c, expanded by b.r + 0.05
inBroadPhase(b, a, c) ==
  LET minx == Min(a.x, c.x) - b.r - BroadPhasePad
      maxx == Max(a.x, c.x) + b.r + BroadPhasePad
      miny == Min(a.y, c.y) - b.r - BroadPhasePad
      maxy == Max(a.y, c.y) + b.r + BroadPhasePad
  IN ~(b.x < minx \/ b.x > maxx \/ b.y < miny \/ b.y > maxy)

\* best = { a, c, q, dist, tx, ty, nx, ny }, given the closest point q, the
\* tangent tnorm and the normal guessN
bestOf(b, ci, si, q, tnorm, guessN) ==
  LET dx == b.x - q.x
      dy == b.y - q.y
      up == dx * guessN.x + dy * guessN.y >= 0
  IN [found |-> TRUE, ci |-> ci, si |-> si, q |-> q, dist |-> Hypot(dx, dy),
      tx |-> tnorm.x, ty |-> tnorm.y,
      nx |-> IF up THEN guessN.x ELSE -guessN.x,
      ny |-> IF up THEN guessN.y ELSE -guessN.y]

\* const guessN = normalize(-tnorm.y, tnorm.x)
withNormal(b, ci, si, q, tnorm) ==
  bestOf(b, ci, si, q, tnorm, normalize(-tnorm.y, tnorm.x))

\* the contact record of segment a-c (segment si of curve ci) for ball b
contactOf(b, a, c, ci, si) ==
  withNormal(b, ci, si, closestPointOnSegment(b.x, b.y, a.x, a.y, c.x, c.y),
             normalize(c.x - a.x, c.y - a.y))

\* dist <= b.r + 0.02, for the closest point q
inContact(b, q) == Hypot(b.x - q.x, b.y - q.y) <= b.r + ContactMargin

\* segment a-c is within contact range of ball b
qualifies(b, a, c) ==
  /\ ~a.nul /\ ~c.nul
  /\ inBroadPhase(b, a, c)
  /\ inContact(b, closestPointOnSegment(b.x, b.y, a.x, a.y, c.x, c.y))

\* visitSegment with a nearest-wins tie-break: a qualifying segment replaces
\* best only when it is closer
visitSegmentNearest(b, a, c, ci, si, best) ==
  IF qualifies(b, a, c)
       /\ (~best.found \/ contactOf(b, a, c, ci, si).dist < best.dist)
    THEN contactOf(b, a, c, ci, si)
    ELSE best

\* one iteration of the inner loop: best after looking at segment si
visitSegment(b, a, c, ci, si, best) ==
  IF qualifies(b, a, c) THEN contactOf(b, a, c, ci, si) ELSE best

\* for (let i = 0; i < pts.length - 1; i++): segments lo..hi of curve ci, in
\* order; the range is walked by halves, first half first
RECURSIVE scanSegments(_, _, _, _, _, _)
scanSegments(b, pts, ci, lo, hi, best) ==
  IF Ready(best) /\ lo > hi THEN best
  ELSE IF lo = hi THEN visitSegment(b, pts[lo], pts[lo + 1], ci, lo, best)
  ELSE scanSegments(b, pts, ci, (lo + hi) \div 2 + 1, hi,
                    scanSegments(b, pts, ci, lo, (lo + hi) \div 2, best))

\* for (const curve of curves): curves ci.. in list order
RECURSIVE scanCurves(_, _, _, _)
scanCurves(b, cs, ci, best) ==
  IF Ready(best) /\ ci > Len(cs) THEN best
  ELSE scanCurves(b, cs, ci + 1,
                  scanSegments(b, cs[ci].points, ci, 1, Len(cs[ci].points) - 1, best))

\* the snap: the ball's position after "Snap to just above surface" and
\* before the tangential step
snapped(b, best) ==
  LET penetration == (b.r - best.dist) + SnapEps
  IN IF penetration > 0
       THEN [x |-> b.x + MulDiv(best.nx, penetration, Unit),
             y |-> b.y + MulDiv(best.ny, penetration, Unit)]
       ELSE [x |-> best.q.x + MulDiv(best.nx, b.r + SnapEps, Unit),
             y |-> best.q.y + MulDiv(best.ny, b.r + SnapEps, Unit)]

\* slide with the normal component reflected instead of discarded
slideBounce(b, best, dt, gravity) ==
  LET penetration == (b.r - best.dist) + SnapEps
      sx == IF penetration > 0
              THEN b.x + MulDiv(best.nx, penetration, Unit)
              ELSE best.q.x + MulDiv(best.nx, b.r + SnapEps, Unit)
      sy == IF penetration > 0
              THEN b.y + MulDiv(best.ny, penetration, Unit)
              ELSE best.q.y + MulDiv(best.ny, b.r + SnapEps, Unit)
      vt == MulDiv(b.vx, best.tx, Unit) + MulDiv(b.vy, best.ty, Unit)
      vn == MulDiv(b.vx, best.nx, Unit) + MulDiv(b.vy, best.ny, Unit)
      gt == MulDiv(gravity, best.ty, Unit)
      newVt == MulDiv(vt + MulDiv(gt, dt, PerMille), Friction, PerMille)
      vx == MulDiv(newVt, best.tx, Unit) - MulDiv(vn, best.nx, Unit)
      vy == MulDiv(newVt, best.ty, Unit) - MulDiv(vn, best.ny, Unit)
  IN [b EXCEPT !.vx = vx, !.vy = vy,
               !.x = sx + MulDiv(vx, dt, PerMille),
               !.y = sy + MulDiv(vy, dt, PerMille)]

\* if (best) {...}: snap to the surface and slide along it
slide(b, best, dt, gravity) ==
  LET sx == snapped(b, best).x
      sy == snapped(b, best).y
      vt == MulDiv(b.vx, best.tx, Unit) + MulDiv(b.vy, best.ty, Unit)
      gt == MulDiv(gravity, best.ty, Unit)
      newVt == MulDiv(vt + MulDiv(gt, dt, PerMille), Friction, PerMille)
      vx == MulDiv(newVt, best.tx, Unit)
      vy == MulDiv(newVt, best.ty, Unit)
  IN [b EXCEPT !.vx = vx, !.vy = vy,
               !.x = sx + MulDiv(vx, dt, PerMille),
               !.y = sy + MulDiv(vy, dt, PerMille)]

\* else {...}: free integrate when not on any surface
freeIntegrate(b, dt) ==
  [b EXCEPT !.x = b.x + MulDiv(b.vx, dt, PerMille),
            !.y = b.y + MulDiv(b.vy, dt, PerMille)]

\* b.vy += gravity * dt
applyGravity(b, dt, gravity) ==
  [b EXCEPT !.vy = b.vy + MulDiv(gravity, dt, PerMille)]

\* the body of the loop over balls: the ball after the tick, and what the
\* tick did with it (kind, and the contact used when kind = "surface")
resolve(g, best, dt, gravity) ==
  IF best.found
    THEN [ball |-> slide(g, best, dt, gravity), kind |-> "surface", best |-> best]
    ELSE [ball |-> freeIntegrate(g, dt), kind |-> "free", best |-> NoBest]

updateBall(b, dt, gravity, bounds, cs) ==
  LET g == applyGravity(b, dt, gravity)
  IN IF exitedBounds(g, bounds)
       THEN [ball |-> [g EXCEPT !.oob = TRUE], kind |-> "oob", best |-> NoBest]
       ELSE resolve(g, scanCurves(g, cs, 1, NoBest), dt, gravity)

updateBalls(bs, dt, gravity, bounds, cs) ==
  [i \in 1..Len(bs) |-> updateBall(bs[i], dt, gravity, bounds, cs)]

----------------------------------------------------------------------------
(* physics.js: checkStarCollection                                         *)

\* a star: { x, y, collected: false }
Star(x, y) == [x |-> x, y |-> y, collected |-> FALSE]

\* inReach without the ball's radius
inReachOfCentre(b, s, radius) == Hypot(b.x - s.x, b.y - s.y) <= radius

\* d <= (b.r + radius)
inReach(b, s, radius) == Hypot(b.x - s.x, b.y - s.y) <= b.r + radius

\* firstInReach passing over the balls that have collected a star already
RECURSIVE firstFreshInReach(_, _, _, _)
firstFreshInReach(bs, s, radius, i) ==
  IF i > Len(bs) THEN 0
  ELSE IF ~bs[i].collected /\ inReach(bs[i], s, radius) THEN i
  ELSE firstFreshInReach(bs, s, radius, i + 1)

\* for (const b of balls): index of the first ball from i on within reach
\* of star s, 0 when there is none
RECURSIVE firstInReach(_, _, _, _)
firstInReach(bs, s, radius, i) ==
  IF i > Len(bs) THEN 0
  ELSE IF inReach(bs[i], s, radius) THEN i
  ELSE firstInReach(bs, s, radius, i + 1)

\* visitStar setting the flag from this call's test alone
visitStarRecomputed(acc, j, radius) ==
  LET s == acc.stars[j]
      i == firstInReach(acc.balls, s, radius, 1)
  IN IF i = 0 THEN [acc EXCEPT !.stars[j].collected = FALSE]
     ELSE [acc EXCEPT !.newly = ~s.collected,
                      !.stars[j].collected = TRUE,
                      !.balls[i].collected = TRUE,
                      !.count = acc.count + 1]

\* visitStar counting only the stars collected in this call
visitStarCountNew(acc, j, radius) ==
  LET s == acc.stars[j]
      i == firstInReach(acc.balls, s, radius, 1)
  IN IF s.collected \/ i = 0 THEN acc
     ELSE [acc EXCEPT !.newly = TRUE,
                      !.stars[j].collected = TRUE,
                      !.balls[i].collected = TRUE,
                      !.count = acc.count + 1]

\* one iteration of the loop over stars, on the accumulated state
\* acc = [balls, stars, count, newly]
visitStar(acc, j, radius) ==
  LET s == acc.stars[j]
      i == firstInReach(acc.balls, s, radius, 1)
  IN IF s.collected THEN [acc EXCEPT !.count = acc.count + 1]
     ELSE IF i = 0 THEN acc
     ELSE [acc EXCEPT !.newly = TRUE,
                      !.stars[j].collected = TRUE,
                      !.balls[i].collected = TRUE,
                      !.count = acc.count + 1]

RECURSIVE scanStars(_, _, _)
scanStars(acc, j, radius) ==
  IF j > Len(acc.stars) THEN acc
  ELSE scanStars(visitStar(acc, j, radius), j + 1, radius)

\* the balls and stars after the call, and the returned { count, newlyCollected }
checkStarCollection(bs, ss, radius) ==
  scanStars([balls |-> bs, stars |-> ss, count |-> 0, newly |-> FALSE], 1, radius)

----------------------------------------------------------------------------
(* equations.js: text                                                      *)
(* A string is a sequence of one-character strings.                        *)

Digits == <<"0", "1", "2", "3", "4", "5", "6", "7", "8", "9">>
LowerCase == <<"a", "b", "c", "d", "e", "f", "g", "h", "i", "j", "k", "l", "m",
               "n", "o", "p", "q", "r", "s", "t", "u", "v", "w", "x", "y", "z">>
UpperCase == <<"A", "B", "C", "D", "E", "F", "G", "H", "I", "J", "K", "L", "M",
               "N", "O", "P", "Q", "R", "S", "T", "U", "V", "W", "X", "Y", "Z">>

Range(seq) == {seq[k] : k \in 1..Len(seq)}
IndexOf(seq, c) == CHOOSE k \in 1..Len(seq) : seq[k] = c

IsDigit(c) == c \in Range(Digits)
IsLetter(c) == c \in Range(LowerCase) \cup Range(UpperCase)
\* \w and \s of the regular expressions
IsWordChar(c) == IsDigit(c) \/ IsLetter(c) \/ c = "_"
IsSpace(c) == c = " "
\* [xy] under the i flag
IsXY(c) == c \in {"x", "y", "X", "Y"}

\* the character at position i, "" outside the string
At(str, i) == IF i \in 1..Len(str) THEN str[i] ELSE ""
\* str.slice(i - 1, j): characters i..j
Slice(str, i, j) == IF j < i THEN <<>> ELSE [k \in 1..(j - i + 1) |-> str[i + k - 1]]
From(str, i) == Slice(str, i, Len(str))

\* \s*: the first position from i on that holds no space
RECURSIVE SkipSpaces(_, _)
SkipSpaces(str, i) == IF IsSpace(At(str, i)) THEN SkipSpaces(str, i + 1) ELSE i

\* the last position up to i that holds no space, 0 when there is none
RECURSIVE SkipSpacesBack(_, _)
SkipSpacesBack(str, i) ==
  IF i >= 1 /\ IsSpace(str[i]) THEN SkipSpacesBack(str, i - 1) ELSE i

\* String.prototype.trim
trim(str) == Slice(str, SkipSpaces(str, 1), SkipSpacesBack(str, Len(str)))

\* String.prototype.toLowerCase
toLowerCase(str) ==
  [k \in 1..Len(str) |->
     IF str[k] \in Range(UpperCase) THEN LowerCase[IndexOf(UpperCase, str[k])]
     ELSE str[k]]

\* \b between positions i - 1 and i
WordBoundary(str, i) == IsWordChar(At(str, i - 1)) # IsWordChar(At(str, i))

----------------------------------------------------------------------------
(* equations.js: sanitizeExpression                                        *)

\* expr.replace(/^[yx]\s*=\s*/i, '')
stripPrefix(str) ==
  LET e == SkipSpaces(str, 2)
  IN IF IsXY(At(str, 1)) /\ At(str, e) = "="
       THEN From(str, SkipSpaces(str, e + 1))
       ELSE str

\* The state of a left-to-right scan of a string: the output so far and the
\* position of the next character to look at
ScanStart == [out |-> <<>>, i |-> 1]
\* the scan after it has put chars out and moved to position next
Emit(st, chars, next) == [out |-> st.out \o chars, i |-> next]

\* expr.replace(/\^/g, '**')
caretStep(str, st) ==
  Emit(st, IF str[st.i] = "^" THEN <<"*", "*">> ELSE <<str[st.i]>>, st.i + 1)

\* expr.replace(/\bln\s*\(/gi, 'log(')
lnStep(str, st) ==
  IF /\ WordBoundary(str, st.i)
     /\ At(str, st.i) \in {"l", "L"}
     /\ At(str, st.i + 1) \in {"n", "N"}
     /\ At(str, SkipSpaces(str, st.i + 2)) = "("
    THEN Emit(st, <<"l", "o", "g", "(">>, SkipSpaces(str, st.i + 2) + 1)
    ELSE Emit(st, <<str[st.i]>>, st.i + 1)

\* the replacement step were the match put back without the "*"
juxtaposed(str, st, matches, j) ==
  IF matches THEN Emit(st, <<str[st.i], str[j]>>, j + 1)
  ELSE Emit(st, <<str[st.i]>>, st.i + 1)

\* a replacement step whose match runs from i over spaces to j: the match
\* is replaced by str[i] "*" str[j]
starBetween(str, st, matches, j) ==
  IF matches THEN Emit(st, <<str[st.i], "*", str[j]>>, j + 1)
  ELSE Emit(st, <<str[st.i]>>, st.i + 1)

\* expr.replace(/(\d)\s*([xy])\b/gi, '$1*$2')
digitThenVarAt(str, st, j) ==
  starBetween(str, st,
              IsDigit(str[st.i]) /\ IsXY(At(str, j)) /\ WordBoundary(str, j + 1), j)
digitThenVarStep(str, st) == digitThenVarAt(str, st, SkipSpaces(str, st.i + 1))

\* expr.replace(/\b([xy])\s*(\d)/gi, '$1*$2')
varThenDigitAt(str, st, j) ==
  starBetween(str, st,
              WordBoundary(str, st.i) /\ IsXY(str[st.i]) /\ IsDigit(At(str, j)), j)
varThenDigitStep(str, st) == varThenDigitAt(str, st, SkipSpaces(str, st.i + 1))

\* expr.replace(/\b([xy])\s*\(/gi, '$1*(')
varThenParenAt(str, st, j) ==
  starBetween(str, st,
              WordBoundary(str, st.i) /\ IsXY(str[st.i]) /\ At(str, j) = "(", j)
varThenParenStep(str, st) == varThenParenAt(str, st, SkipSpaces(str, st.i + 1))

\* expr.replace(/\)\s*([xy])\b/gi, ')*$1')
parenThenVarAt(str, st, j) ==
  starBetween(str, st,
              str[st.i] = ")" /\ IsXY(At(str, j)) /\ WordBoundary(str, j + 1), j)
parenThenVarStep(str, st) == parenThenVarAt(str, st, SkipSpaces(str, st.i + 1))

\* expr.replace(/\)\s*\(/g, ')*(')
parenThenParenAt(str, st, j) ==
  starBetween(str, st, str[st.i] = ")" /\ At(str, j) = "(", j)
parenThenParenStep(str, st) == parenThenParenAt(str, st, SkipSpaces(str, st.i + 1))

\* one step of the replacement named pass
replaceStep(pass, str, st) ==
  CASE pass = "caretToPower" -> caretStep(str, st)
    [] pass = "lnToLog" -> lnStep(str, st)
    [] pass = "digitThenVar" -> digitThenVarStep(str, st)
    [] pass = "varThenDigit" -> varThenDigitStep(str, st)
    [] pass = "varThenParen" -> varThenParenStep(str, st)
    [] pass = "parenThenVar" -> parenThenVarStep(str, st)
    [] OTHER -> parenThenParenStep(str, st)

\* the scan st of the replacement taken through positions a..b of str, in
\* order; a step is taken at each position the scan has not already moved
\* past.  The range is walked by halves, first half first
RECURSIVE replaceScan(_, _, _, _, _)
replaceScan(pass, str, st, a, b) ==
  IF Ready(st) /\ (a > b \/ st.i > b) THEN st
  ELSE IF a = b THEN (IF st.i = a THEN replaceStep(pass, str, st) ELSE st)
  ELSE replaceScan(pass, str, replaceScan(pass, str, st, a, (a + b) \div 2),
                   (a + b) \div 2 + 1, b)

\* str.replace(...) with the global flag
replaced(pass, str) ==
  IF Ready(str) THEN replaceScan(pass, str, ScanStart, 1, Len(str)).out ELSE str

caretToPower(str) == replaced("caretToPower", str)
lnToLog(str) == replaced("lnToLog", str)
digitThenVar(str) == replaced("digitThenVar", str)
varThenDigit(str) == replaced("varThenDigit", str)
varThenParen(str) == replaced("varThenParen", str)
parenThenVar(str) == replaced("parenThenVar", str)
parenThenParen(str) == replaced("parenThenParen", str)

\* the replacements in the order the code makes them, innermost first
sanitizeExpression(input) ==
  parenThenParen(
    parenThenVar(
      varThenParen(
        varThenDigit(
          digitThenVar(
            lnToLog(
              caretToPower(
                stripPrefix(trim(input)))))))))

----------------------------------------------------------------------------
(* equations.js: validation                                                *)

\* ALLOWED_IDENTIFIERS, each with the name the model uses for it
AllowedIdentifiers ==
  << [chars |-> <<"x">>, name |-> "x"],
     [chars |-> <<"y">>, name |-> "y"],
     [chars |-> <<"P", "I">>, name |-> "PI"],
     [chars |-> <<"E">>, name |-> "E"],
     [chars |-> <<"s", "i", "n">>, name |-> "sin"],
     [chars |-> <<"c", "o", "s">>, name |-> "cos"],
     [chars |-> <<"t", "a", "n">>, name |-> "tan"],
     [chars |-> <<"a", "s", "i", "n">>, name |-> "asin"],
     [chars |-> <<"a", "c", "o", "s">>, name |-> "acos"],
     [chars |-> <<"a", "t", "a", "n">>, name |-> "atan"],
     [chars |-> <<"a", "t", "a", "n", "2">>, name |-> "atan2"],
     [chars |-> <<"a", "b", "s">>, name |-> "abs"],
     [chars |-> <<"s", "q", "r", "t">>, name |-> "sqrt"],
     [chars |-> <<"p", "o", "w">>, name |-> "pow"],
     [chars |-> <<"l", "o", "g">>, name |-> "log"],
     [chars |-> <<"e", "x", "p">>, name |-> "exp"],
     [chars |-> <<"m", "i", "n">>, name |-> "min"],
     [chars |-> <<"m", "a", "x">>, name |-> "max"],
     [chars |-> <<"f", "l", "o", "o", "r">>, name |-> "floor"],
     [chars |-> <<"c", "e", "i", "l">>, name |-> "ceil"],
     [chars |-> <<"r", "o", "u", "n", "d">>, name |-> "round"],
     [chars |-> <<"s", "i", "g", "n">>, name |-> "sign"] >>

IsAllowed(id) == \E k \in 1..Len(AllowedIdentifiers) : AllowedIdentifiers[k].chars = id
NameOf(id) ==
  AllowedIdentifiers[CHOOSE k \in 1..Len(AllowedIdentifiers) :
                       AllowedIdentifiers[k].chars = id].name

\* the end of the run of word characters that starts at i
RECURSIVE WordEnd(_, _)
WordEnd(str, i) == IF IsWordChar(At(str, i + 1)) THEN WordEnd(str, i + 1) ELSE i

\* expr.match(/[A-Za-z_][A-Za-z0-9_]*/g): the identifiers, in order
identifierStep(str, st) ==
  IF IsLetter(str[st.i]) \/ str[st.i] = "_"
    THEN Emit(st, <<Slice(str, st.i, WordEnd(str, st.i))>>, WordEnd(str, st.i) + 1)
    ELSE Emit(st, <<>>, st.i + 1)

\* the scan for identifiers taken through positions a..b of str, by halves
RECURSIVE identifierScan(_, _, _, _)
identifierScan(str, st, a, b) ==
  IF Ready(st) /\ (a > b \/ st.i > b) THEN st
  ELSE IF a = b THEN (IF st.i = a THEN identifierStep(str, st) ELSE st)
  ELSE identifierScan(str, identifierScan(str, st, a, (a + b) \div 2),
                      (a + b) \div 2 + 1, b)

identifiers(str) ==
  IF Ready(str) THEN identifierScan(str, ScanStart, 1, Len(str)).out ELSE <<>>

\* the first identifier of the list that is not allowed, <<>> when all are
RECURSIVE firstUnknown(_, _)
firstUnknown(found, k) ==
  IF k > Len(found) THEN <<>>
  ELSE IF ~IsAllowed(found[k]) THEN found[k]
  ELSE firstUnknown(found, k + 1)

\* /[^0-9+\-*/^()\. ,a-zA-Z_]/
ExpressionChar(c) ==
  IsWordChar(c) \/ c \in {"+", "-", "*", "/", "^", "(", ")", ".", " ", ","}
\* /[^0-9+\-*/^()\. ,a-zA-Z_<>!=&|]/
ConditionChar(c) == ExpressionChar(c) \/ c \in {"<", ">", "!", "=", "&", "|"}

\* a thrown Error: its message, and the identifier the message ends with
Thrown(msg, id) == [ok |-> FALSE, msg |-> msg, id |-> id]
NotThrown == [ok |-> TRUE, msg |-> "", id |-> <<>>]

\* if (!ALLOWED_IDENTIFIERS.has(id)) throw new Error(msg + id), for the
\* first unknown identifier id (<<>> when there is none)
throwUnknown(msg, id) == IF id # <<>> THEN Thrown(msg, id) ELSE NotThrown

validateExpression(expr) ==
  IF \E k \in 1..Len(expr) : ~ExpressionChar(expr[k])
    THEN Thrown("Invalid characters in expression", <<>>)
    ELSE throwUnknown("Unknown identifier: ", firstUnknown(identifiers(expr), 1))

validateCondition(expr) ==
  IF \E k \in 1..Len(expr) : ~ConditionChar(expr[k])
    THEN Thrown("Invalid characters in condition", <<>>)
    ELSE throwUnknown("Unknown identifier in condition: ",
                      firstUnknown(identifiers(expr), 1))

\* raw.match(/\{([^}]*)\}\s*$/): a trailing { condition }
extractCondition(raw) ==
  LET e == SkipSpacesBack(raw, Len(raw))
      opens == {i \in 1..(e - 1) :
                  raw[i] = "{" /\ \A k \in (i + 1)..(e - 1) : raw[k] # "}"}
      m == CHOOSE i \in opens : \A k \in opens : i <= k
  IN IF At(raw, e) # "}" \/ opens = {}
       THEN [base |-> raw, has |-> FALSE, condSrc |-> <<>>]
       ELSE [base |-> trim(Slice(raw, 1, m - 1)), has |-> TRUE,
             condSrc |-> trim(Slice(raw, m + 1, e - 1))]

----------------------------------------------------------------------------
(* equations.js: new Function(...) -- the JavaScript expression grammar    *)
(* buildFunction splices the text into "return (" text ");" and compiles   *)
(* it in strict mode.  The characters that pass validateExpression or      *)
(* validateCondition reach only this part of the language: numbers, the    *)
(* allowed names, calls, unary and binary operators, parentheses, commas.  *)
(* A text that uses anything else a JavaScript engine would accept from    *)
(* those characters (comments, regular-expression literals, ++ and --,     *)
(* member access, exponent notation, assignment, bitwise operators and     *)
(* === / !==) is reported as "unmodelled" and is not among the inputs.     *)

\* largest magnitude the fixed-point numbers carry: 1e5 world units
ValueCap == 1000000000

Token(t, n, id, op) == [t |-> t, n |-> n, id |-> id, op |-> op]
TNum(n) == Token("num", n, <<>>, "")
TId(id) == Token("id", 0, id, "")
TOp(op) == Token("op", 0, <<>>, op)
TEnd == Token("end", 0, <<>>, "")
TBad == Token("bad", 0, <<>>, "")
TUnmodelled == Token("unmodelled", 0, <<>>, "")

DigitValue(c) == IndexOf(Digits, c) - 1

\* the end of the run of digits that starts at i (i - 1 when there is none)
RECURSIVE DigitsEnd(_, _)
DigitsEnd(str, i) == IF IsDigit(At(str, i)) THEN DigitsEnd(str, i + 1) ELSE i - 1

\* the whole number written by str[i..j], saturating above ValueCap quanta
RECURSIVE WholeValue(_, _, _, _)
WholeValue(str, i, j, acc) ==
  IF i > j THEN acc
  ELSE WholeValue(str, i + 1, j, Min(ValueCap \div Unit + 1, acc * 10 + DigitValue(str[i])))

\* the fraction written by the digits str[i..j], in quanta, rounded on the
\* fifth digit
FractionValue(str, i, j) ==
  LET d(k) == IF i + k - 1 <= j THEN DigitValue(str[i + k - 1]) ELSE 0
  IN 1000 * d(1) + 100 * d(2) + 10 * d(3) + d(4) + (IF d(5) >= 5 THEN 1 ELSE 0)

\* the value of a literal with whole part whole and fraction frac
literalValue(whole, frac) ==
  IF whole > ValueCap \div Unit THEN ValueCap + 1 ELSE whole * Unit + frac

\* the literal str[i..fEnd], whose whole part ends at wEnd: [tok, next]
lexLiteral(str, i, wEnd, fEnd) ==
  LET after == At(str, fEnd + 1)
  IN IF wEnd > i /\ str[i] = "0"
       THEN [tok |-> TBad, next |-> fEnd + 1]          \* 012: not in strict mode
     ELSE IF after \in {"e", "E"}
       THEN [tok |-> TUnmodelled, next |-> fEnd + 1]   \* 1E3, 1E+3
     ELSE IF IsLetter(after) \/ after = "_"
       THEN [tok |-> TBad, next |-> fEnd + 1]          \* 2PI
     ELSE [tok |-> TNum(literalValue(WholeValue(str, i, wEnd, 0),
                                     FractionValue(str, wEnd + 2, fEnd))),
           next |-> fEnd + 1]

\* the literal whose whole part is str[i..wEnd]
lexFraction(str, i, wEnd) ==
  lexLiteral(str, i, wEnd,
             IF At(str, wEnd + 1) = "." THEN DigitsEnd(str, wEnd + 2) ELSE wEnd)

\* a numeric literal starting at i: [tok, next]
lexNumber(str, i) == lexFraction(str, i, DigitsEnd(str, i))

TwoCharOps == {<<"*", "*">>, <<"<", "=">>, <<">", "=">>, <<"=", "=">>,
               <<"!", "=">>, <<"&", "&">>, <<"|", "|">>}
OneCharOps == {"+", "-", "*", "/", "(", ")", ",", "<", ">", "!"}
\* two characters that begin something outside the modelled grammar
UnmodelledPairs == {<<"+", "+">>, <<"-", "-">>, <<"/", "/">>, <<"/", "*">>,
                    <<"<", "<">>, <<">", ">">>}
OpName(c, d) ==
  CASE c = "*" -> "**"
    [] c = "<" -> "<="
    [] c = ">" -> ">="
    [] c = "=" -> "=="
    [] c = "!" -> "!="
    [] c = "&" -> "&&"
    [] OTHER -> "||"

\* the scan after the token lexed
lexedNext(st, lexed) == Emit(st, <<lexed.tok>>, lexed.next)

\* the token that starts with the characters c, d at the scan's position
lexStep(str, st) ==
  LET c == At(str, st.i)
      d == At(str, st.i + 1)
  IN IF IsSpace(c) THEN Emit(st, <<>>, st.i + 1)
     ELSE IF IsDigit(c) \/ (c = "." /\ IsDigit(d))
       THEN lexedNext(st, lexNumber(str, st.i))
     ELSE IF IsLetter(c) \/ c = "_"
       THEN Emit(st, <<TId(Slice(str, st.i, WordEnd(str, st.i)))>>, WordEnd(str, st.i) + 1)
     ELSE IF <<c, d>> \in UnmodelledPairs
       THEN Emit(st, <<TUnmodelled>>, st.i + 2)
     ELSE IF <<c, d>> \in TwoCharOps
       THEN IF At(str, st.i + 2) = "="
              THEN Emit(st, <<TUnmodelled>>, st.i + 3)     \* **=, ===, !==, <== ...
              ELSE Emit(st, <<TOp(OpName(c, d))>>, st.i + 2)
     ELSE IF c \in OneCharOps /\ d # "="
       THEN Emit(st, <<TOp(c)>>, st.i + 1)
     ELSE Emit(st, <<TUnmodelled>>, st.i + 1)              \* . = & | += ...

\* the lexer taken through positions a..b of str, by halves
RECURSIVE lexScan(_, _, _, _)
lexScan(str, st, a, b) ==
  IF Ready(st) /\ (a > b \/ st.i > b) THEN st
  ELSE IF a = b THEN (IF st.i = a THEN lexStep(str, st) ELSE st)
  ELSE lexScan(str, lexScan(str, st, a, (a + b) \div 2), (a + b) \div 2 + 1, b)

\* the tokens of str
tokens(str) == IF Ready(str) THEN lexScan(str, ScanStart, 1, Len(str)).out ELSE <<>>

\* a syntax tree: kind k, number v, name or operator s, children a
Node(k, v, s, a) == [k |-> k, v |-> v, s |-> s, a |-> a]
NoNode == Node("none", 0, "", <<>>)

\* the outcome of parsing from a position: st is "ok", "syntax" or
\* "unmodelled"; i is the position after what was parsed
Parsed(node, i) == [st |-> "ok", node |-> node, i |-> i]
SyntaxError(i) == [st |-> "syntax", node |-> NoNode, i |-> i]
Unmodelled(i) == [st |-> "unmodelled", node |-> NoNode, i |-> i]

TokAt(ts, i) == IF i \in 1..Len(ts) THEN ts[i] ELSE TEnd
IsOp(tok, ops) == tok.t = "op" /\ tok.op \in ops

\* binary operators by precedence level, loosest first
LevelOps ==
  << {","}, {"||"}, {"&&"}, {"==", "!="}, {"<", ">", "<=", ">="},
     {"+", "-"}, {"*", "/"} >>
UnaryOps == {"+", "-", "!"}

\* the precedence level of the binary operator op
LevelOf(op) == CHOOSE lvl \in 1..Len(LevelOps) : op \in LevelOps[lvl]
\* tok is a binary operator of level lvl or tighter
IsBinaryFrom(tok, lvl) ==
  tok.t = "op" /\ \E k \in lvl..Len(LevelOps) : tok.op \in LevelOps[k]

RECURSIVE pBin(_, _, _), pBinTail(_, _, _), pExp(_, _), pUnary(_, _),
          pCall(_, _), pCallTail(_, _), pArgs(_, _, _), pPrimary(_, _)

\* Expression at precedence level lvl (1 = comma ... 7 = multiplicative):
\* an ExponentiationExpression, then the binary operators of level lvl or
\* tighter that follow, each with its right operand
pBin(ts, i, lvl) == pBinTail(ts, pExp(ts, i), lvl)

\* left op right, and whatever follows at level lvl or tighter
pBinRight(ts, left, right, lvl) ==
  IF right.st # "ok" THEN right
  ELSE pBinTail(ts,
         Parsed(Node("bin", 0, TokAt(ts, left.i).op, <<left.node, right.node>>),
                right.i),
         lvl)

\* the right operand of a left-associative operator is an expression of
\* the next tighter level
pBinTail(ts, left, lvl) ==
  IF Ready(left) /\ (left.st # "ok" \/ ~IsBinaryFrom(TokAt(ts, left.i), lvl)) THEN left
  ELSE pBinRight(ts, left,
                 pBin(ts, left.i + 1, LevelOf(TokAt(ts, left.i).op) + 1), lvl)

\* a unary expression u may not be the base of **
pExpUnary(ts, u) ==
  IF u.st = "ok" /\ IsOp(TokAt(ts, u.i), {"**"}) THEN SyntaxError(u.i) ELSE u

\* base ** e
pExpPower(base, e) ==
  IF e.st # "ok" THEN e
  ELSE Parsed(Node("bin", 0, "**", <<base.node, e.node>>), e.i)

pExpBase(ts, base) ==
  IF base.st # "ok" \/ ~IsOp(TokAt(ts, base.i), {"**"}) THEN base
  ELSE pExpPower(base, pExp(ts, base.i + 1))

\* ExponentiationExpression
pExp(ts, i) ==
  IF IsOp(TokAt(ts, i), UnaryOps) THEN pExpUnary(ts, pUnary(ts, i))
  ELSE pExpBase(ts, pCall(ts, i))

\* op a
pUnaryOf(op, a) ==
  IF a.st # "ok" THEN a ELSE Parsed(Node("un", 0, op, <<a.node>>), a.i)

pUnary(ts, i) ==
  IF IsOp(TokAt(ts, i), UnaryOps) THEN pUnaryOf(TokAt(ts, i).op, pUnary(ts, i + 1))
  ELSE pCall(ts, i)

pCall(ts, i) == pCallTail(ts, pPrimary(ts, i))

\* callee(args), and whatever call follows
pCallArgs(ts, callee, args) ==
  IF args.st # "ok" THEN args
  ELSE pCallTail(ts,
         Parsed(Node("call", 0, "", <<callee.node>> \o args.node.a), args.i))

pCallTail(ts, callee) ==
  IF callee.st # "ok" \/ ~IsOp(TokAt(ts, callee.i), {"("}) THEN callee
  ELSE pCallArgs(ts, callee, pArgs(ts, callee.i + 1, <<>>))

\* the argument a, then "," and more arguments, or ")"
pArgsNext(ts, acc, a) ==
  IF a.st # "ok" THEN a
  ELSE IF IsOp(TokAt(ts, a.i), {","}) THEN pArgs(ts, a.i + 1, Append(acc, a.node))
  ELSE IF IsOp(TokAt(ts, a.i), {")"})
    THEN Parsed(Node("args", 0, "", Append(acc, a.node)), a.i + 1)
  ELSE SyntaxError(a.i)

\* the arguments after "(", up to and including ")"; a trailing comma is allowed
pArgs(ts, i, acc) ==
  IF IsOp(TokAt(ts, i), {")"}) THEN Parsed(Node("args", 0, "", acc), i + 1)
  ELSE pArgsNext(ts, acc, pBin(ts, i, 2))

\* ( e )
pParenthesized(ts, e) ==
  IF e.st # "ok" THEN e
  ELSE IF IsOp(TokAt(ts, e.i), {")"}) THEN Parsed(e.node, e.i + 1)
  ELSE SyntaxError(e.i)

pPrimary(ts, i) ==
  LET tok == TokAt(ts, i)
  IN IF tok.t = "num" THEN Parsed(Node("num", tok.n, "", <<>>), i + 1)
     ELSE IF tok.t = "id" THEN
       IF IsAllowed(tok.id) THEN Parsed(Node("id", 0, NameOf(tok.id), <<>>), i + 1)
       ELSE Unmodelled(i)
     ELSE IF IsOp(tok, {"("}) THEN pParenthesized(ts, pBin(ts, i + 1, 1))
     ELSE IF IsOp(tok, {"/"}) THEN Unmodelled(i)    \* a regular-expression literal
     ELSE SyntaxError(i)

\* the whole token list ts parsed as p
pWhole(ts, p) ==
  IF \E k \in 1..Len(ts) : ts[k].t = "unmodelled" THEN Unmodelled(0)
  ELSE IF \E k \in 1..Len(ts) : ts[k].t = "bad" THEN SyntaxError(0)
  ELSE IF p.st # "ok" THEN p
  ELSE IF p.i <= Len(ts) THEN SyntaxError(p.i)
  ELSE p

pTokens(ts) == pWhole(ts, pBin(ts, 1, 1))

\* new Function(params, '"use strict"; const {...} = Math; return (' text ');'):
\* the tree of the returned expression, or why there is none
compile(text) == pTokens(<<TOp("(")>> \o tokens(text) \o <<TOp(")")>>)

----------------------------------------------------------------------------
(* equations.js: calling the compiled function                             *)
(* A JavaScript value is a finite number within ValueCap ("num", in        *)
(* quanta), a number beyond it or an infinity ("big", v its sign), NaN     *)
(* ("nan"), one of the Math functions ("fn"), or a thrown exception        *)
(* ("throw").  true and false are the numbers 1 and 0, as every operator   *)
(* of the grammar converts them.                                           *)

Val(k, v, s) == [k |-> k, v |-> v, s |-> s]
Num(v) == Val("num", v, "")
Big(sign) == Val("big", sign, "")
NaN == Val("nan", 0, "")
Fn(name) == Val("fn", 0, name)
Throws == Val("throw", 0, "")
Fit(n) == IF Abs(n) > ValueCap THEN Big(Sign(n)) ELSE Num(n)
Bool(p) == IF p THEN Num(Unit) ELSE Num(0)

\* Math.PI, Math.E
PI == 31416
E == 27183

\* ToNumber: a function used as a number is NaN
ToNumber(a) == IF a.k = "fn" THEN NaN ELSE a
\* ToBoolean
Truthy(a) == a.k \in {"big", "fn"} \/ (a.k = "num" /\ a.v # 0)
\* a key that orders numbers and infinities
Key(a) == IF a.k = "big" THEN a.v * (ValueCap + 1) ELSE a.v

negate(a) == IF a.k = "nan" THEN NaN ELSE Val(a.k, -a.v, "")

add(a, b) ==
  IF a.k = "nan" \/ b.k = "nan" THEN NaN
  ELSE IF a.k = "num" /\ b.k = "num" THEN Fit(a.v + b.v)
  ELSE IF a.k = "big" /\ b.k = "big" THEN (IF a.v = b.v THEN a ELSE NaN)
  ELSE IF a.k = "big" THEN a
  ELSE b

\* the product of two magnitudes in quanta
mulNum(x, y) ==
  LET hi == Max(x, y)
      lo == Min(x, y)
      whole == hi \div Unit
  IN IF lo = 0 THEN Num(0)
     ELSE IF whole > 0 /\ lo > ValueCap \div whole THEN Big(1)
     ELSE Fit(MulDiv(hi, lo, Unit))

\* the magnitude m with the sign of a.v * b.v
signed(m, a, b) == Val(m.k, Sign(a.v) * Sign(b.v) * m.v, "")

multiply(a, b) ==
  IF a.k = "nan" \/ b.k = "nan" THEN NaN
  ELSE IF a.k = "num" /\ b.k = "num"
    THEN signed(mulNum(Abs(a.v), Abs(b.v)), a, b)
  ELSE IF a.v = 0 \/ b.v = 0 THEN NaN                 \* Infinity * 0
  ELSE Big(Sign(a.v) * Sign(b.v))

\* the quotient of two magnitudes in quanta, y > 0
divNum(x, y) ==
  IF x \div y > ValueCap \div Unit THEN Big(1)
  ELSE Fit(MulDiv(Max(x, Unit), Min(x, Unit), y))

divide(a, b) ==
  IF a.k = "nan" \/ b.k = "nan" THEN NaN
  ELSE IF a.k = "num" /\ b.k = "num"
    THEN IF b.v = 0 THEN (IF a.v = 0 THEN NaN ELSE Big(Sign(a.v)))
         ELSE signed(divNum(Abs(a.v), Abs(b.v)), a, b)
  ELSE IF a.k = "big" /\ b.k = "big" THEN NaN
  ELSE IF a.k = "big" THEN Big(IF b.v < 0 THEN -a.v ELSE a.v)
  ELSE Num(0)

\* the integer nearest to the square root of n
nearerRoot(n, c) ==
  IF n <= 0 THEN 0
  ELSE IF c * c - n <= n - (c - 1) * (c - 1) THEN c ELSE c - 1

NearestSqrt(n) == nearerRoot(n, CeilSqrt(n))

\* Unit = SqrtUnit * SqrtUnit
SqrtUnit == CeilSqrt(Unit)
\* largest v for which v * Unit stays within the integers
SqrtExact == 200000

sqrt(a) ==
  IF a.k = "nan" \/ a.v < 0 THEN NaN
  ELSE IF a.k = "big" THEN a
  ELSE Num((IF a.v <= SqrtExact THEN 1 ELSE SqrtUnit)
             * NearestSqrt(IF a.v <= SqrtExact THEN a.v * Unit ELSE a.v))

\* largest whole exponent the model raises to
MaxExponent == 8

RECURSIVE raise(_, _)
raise(a, e) == IF e = 0 THEN Num(Unit) ELSE multiply(a, raise(a, e - 1))

reciprocalIf(negative, v) == IF negative THEN divide(Num(Unit), v) ELSE v

\* a ** b for a whole exponent up to MaxExponent in magnitude, or 0.5
power(a, b) ==
  IF b.k = "num" /\ b.v = 0 THEN Num(Unit)
  ELSE IF a.k = "nan" \/ b.k # "num" THEN NaN
  ELSE IF b.v = Unit \div 2 THEN sqrt(a)
  ELSE IF b.v % Unit # 0 \/ Abs(b.v) > MaxExponent * Unit THEN NaN
  ELSE reciprocalIf(b.v < 0, raise(a, Abs(b.v) \div Unit))

floor(a) == IF a.k = "num" THEN Num((a.v \div Unit) * Unit) ELSE a
ceil(a) == negate(floor(negate(a)))
round(a) == IF a.k = "num" THEN Num(((a.v + Unit \div 2) \div Unit) * Unit) ELSE a
abs(a) == IF a.k = "nan" THEN NaN ELSE Val(a.k, Abs(a.v), "")
sign(a) == IF a.k = "nan" THEN NaN ELSE Num(Sign(a.v) * Unit)

\* 5 * PI * PI / 16, in quanta squared
BhaskaraDen == ((PI * PI) \div 16) * 5
\* Math.sin by Bhaskara's rational approximation (error below 0.002)
sin(a) ==
  IF a.k # "num" THEN NaN
  ELSE LET r == a.v % (2 * PI)
           t == IF r <= PI THEN r ELSE r - PI
           p == t * (PI - t)
           s == MulDiv(p, Unit, BhaskaraDen - p \div 4)
       IN Num(IF r <= PI THEN s ELSE -s)
cos(a) == IF a.k # "num" THEN NaN ELSE sin(Num(a.v + PI \div 2))

\* Math.min / Math.max of a list of numbers
RECURSIVE least(_, _, _), greatest(_, _, _)
least(args, k, acc) ==
  IF k > Len(args) THEN acc
  ELSE IF args[k].k = "nan" THEN NaN
  ELSE least(args, k + 1, IF Key(args[k]) < Key(acc) THEN args[k] ELSE acc)
greatest(args, k, acc) ==
  IF k > Len(args) THEN acc
  ELSE IF args[k].k = "nan" THEN NaN
  ELSE greatest(args, k + 1, IF Key(args[k]) > Key(acc) THEN args[k] ELSE acc)

\* the Math functions the model computes; the others are not among the inputs
Computed == {"abs", "sqrt", "min", "max", "floor", "ceil", "round", "sign", "sin", "cos"}

\* Math[name](...args); a missing argument is undefined, hence NaN
apply(name, args) ==
  LET nums == [k \in 1..Len(args) |-> ToNumber(args[k])]
      a1 == IF Len(nums) >= 1 THEN nums[1] ELSE NaN
  IN CASE name = "abs" -> abs(a1)
       [] name = "sqrt" -> sqrt(a1)
       [] name = "floor" -> floor(a1)
       [] name = "ceil" -> ceil(a1)
       [] name = "round" -> round(a1)
       [] name = "sign" -> sign(a1)
       [] name = "sin" -> sin(a1)
       [] name = "cos" -> cos(a1)
       [] name = "min" -> least(nums, 1, Big(1))
       [] name = "max" -> greatest(nums, 1, Big(-1))
       [] OTHER -> NaN

unary(op, a) ==
  CASE op = "-" -> negate(ToNumber(a))
    [] op = "+" -> ToNumber(a)
    [] OTHER -> Bool(~Truthy(a))

compare(op, a, b) ==
  IF a.k = "nan" \/ b.k = "nan" THEN Bool(op = "!=")
  ELSE CASE op = "<" -> Bool(Key(a) < Key(b))
         [] op = ">" -> Bool(Key(a) > Key(b))
         [] op = "<=" -> Bool(Key(a) <= Key(b))
         [] op = ">=" -> Bool(Key(a) >= Key(b))
         [] op = "==" -> Bool(Key(a) = Key(b))
         [] OTHER -> Bool(Key(a) # Key(b))

binary(op, l, r) ==
  LET a == ToNumber(l)
      b == ToNumber(r)
  IN CASE op = "+" -> add(a, b)
       [] op = "-" -> add(a, negate(b))
       [] op = "*" -> multiply(a, b)
       [] op = "/" -> divide(a, b)
       [] op = "**" -> power(a, b)
       [] op = "," -> r
       [] OTHER -> compare(op, a, b)

\* the names bound in the function body: the parameters, and Math's members
lookup(name, env) ==
  CASE name = "x" -> env.x
    [] name = "y" -> env.y
    [] name = "PI" -> Num(PI)
    [] name = "E" -> Num(E)
    [] OTHER -> Fn(name)

\* the value of the expression n; env gives the parameters, Throws for a
\* name that is not a parameter (a ReferenceError in strict mode)
RECURSIVE evaluate(_, _)
evaluate(n, env) ==
  CASE n.k = "num" -> Fit(n.v)
    [] n.k = "id" -> lookup(n.s, env)
    [] n.k = "un" ->
         LET a == evaluate(n.a[1], env)
         IN IF a.k = "throw" THEN Throws ELSE unary(n.s, a)
    [] n.k = "bin" ->
         LET l == evaluate(n.a[1], env)
             r == evaluate(n.a[2], env)
         IN IF l.k = "throw" THEN Throws
            ELSE IF n.s = "&&" THEN (IF Truthy(l) THEN r ELSE l)
            ELSE IF n.s = "||" THEN (IF Truthy(l) THEN l ELSE r)
            ELSE IF r.k = "throw" THEN Throws
            ELSE binary(n.s, l, r)
    [] n.k = "call" ->
         LET f == evaluate(n.a[1], env)
             args == [k \in 1..(Len(n.a) - 1) |-> evaluate(n.a[k + 1], env)]
         IN IF f.k = "throw" \/ \E k \in 1..Len(args) : args[k].k = "throw" THEN Throws
            ELSE IF f.k # "fn" THEN Throws            \* TypeError: not a function
            ELSE apply(f.s, args)
    [] OTHER -> Throws

\* whether the model computes the tree exactly as written: every function
\* name is called, is one of Computed, and every exponent is a literal
RECURSIVE computes(_, _)
computes(n, callee) ==
  CASE n.k = "id" -> n.s \in {"x", "y", "PI", "E"} \/ (callee /\ n.s \in Computed)
    [] n.k = "call" ->
         /\ computes(n.a[1], TRUE)
         /\ \A k \in 2..Len(n.a) : computes(n.a[k], FALSE)
    [] n.k = "bin" /\ n.s = "**" ->
         /\ computes(n.a[1], FALSE)
         /\ \/ n.a[2].k = "num"
            \/ (n.a[2].k = "un" /\ n.a[2].s = "-" /\ n.a[2].a[1].k = "num")
    [] OTHER -> \A k \in 1..Len(n.a) : computes(n.a[k], FALSE)

----------------------------------------------------------------------------
(* equations.js: parseEquationToFunction                                   *)

\* /^x\s*=/.test(base.toLowerCase())
isXofY(base) ==
  LET low == toLowerCase(base)
  IN At(low, 1) = "x" /\ At(low, SkipSpaces(low, 2)) = "="

\* buildDerivative: the central difference of f with h = 1e-4, one quantum
buildDerivative(f) == [of |-> f, h |-> 1]

\* what parseEquationToFunction returns or throws.  st is "ok", "syntax"
\* (new Function threw) or "unmodelled"; a thrown Error carries its message;
\* compiled names the texts handed to new Function before the return or the
\* throw: "cond" for the condition, "f" for the expression
ParseResult(st, thrown, expr, f, type, hasCond, cond, compiled) ==
  [st |-> st, ok |-> thrown.ok, error |-> thrown, expr |-> expr, f |-> f,
   df |-> buildDerivative(f), type |-> type, hasCond |-> hasCond, cond |-> cond,
   compiled |-> compiled]

ParseFailure(st, thrown, compiled) ==
  ParseResult(st, thrown, <<>>, NoNode, "", FALSE, NoNode, compiled)

\* the outcome were the expression compiled before it is validated
parseOutcomeCompileFirst(type, hasCond, expr, condCheck, cfun, exprCheck, f) ==
  IF hasCond /\ ~condCheck.ok
    THEN ParseFailure("ok", condCheck, {})
  ELSE IF hasCond /\ cfun.st # "ok"
    THEN ParseFailure(cfun.st, Thrown("Failed to parse condition", <<>>), {"cond"})
  ELSE IF f.st # "ok"
    THEN ParseFailure(f.st,
           Thrown(IF type = "xOfY"
                    THEN "Failed to parse expression for x as a function of y"
                    ELSE "Failed to parse expression", <<>>),
           IF hasCond THEN {"cond", "f"} ELSE {"f"})
  ELSE IF ~exprCheck.ok
    THEN ParseFailure("ok", exprCheck, IF hasCond THEN {"cond", "f"} ELSE {"f"})
  ELSE ParseResult("ok", NotThrown, expr, f.node, type, hasCond,
                   IF hasCond THEN cfun.node ELSE NoNode,
                   IF hasCond THEN {"cond", "f"} ELSE {"f"})

\* the outcome, given what the two validations and the two compilations give
parseOutcome(type, hasCond, expr, condCheck, cfun, exprCheck, f) ==
  IF hasCond /\ ~condCheck.ok
    THEN ParseFailure("ok", condCheck, {})
  ELSE IF hasCond /\ cfun.st # "ok"
    THEN ParseFailure(cfun.st, Thrown("Failed to parse condition", <<>>), {"cond"})
  ELSE IF ~exprCheck.ok
    THEN ParseFailure("ok", exprCheck, IF hasCond THEN {"cond"} ELSE {})
  ELSE IF f.st # "ok"
    THEN ParseFailure(f.st,
           Thrown(IF type = "xOfY"
                    THEN "Failed to parse expression for x as a function of y"
                    ELSE "Failed to parse expression", <<>>),
           IF hasCond THEN {"cond", "f"} ELSE {"f"})
  ELSE ParseResult("ok", NotThrown, expr, f.node, type, hasCond,
                   IF hasCond THEN cfun.node ELSE NoNode,
                   IF hasCond THEN {"cond", "f"} ELSE {"f"})

\* condExpr = sanitizeExpression(condSrc), expr = sanitizeExpression(base)
parseSanitized(type, hasCond, condExpr, expr) ==
  parseOutcome(type, hasCond, expr, validateCondition(condExpr), compile(condExpr),
               validateExpression(expr), compile(expr))

\* ex = { base, condSrc }
parseExtracted(ex) ==
  parseSanitized(IF isXofY(ex.base) THEN "xOfY" ELSE "yOfX",
                 ex.has /\ Len(ex.condSrc) > 0,
                 sanitizeExpression(ex.condSrc), sanitizeExpression(ex.base))

parseEquationToFunction(input) == parseExtracted(extractCondition(trim(input)))

\* the model computes what the program computes for this input
ModelledParse(p) ==
  /\ p.st # "unmodelled"
  /\ p.ok => computes(p.f, FALSE) /\ (p.hasCond => computes(p.cond, FALSE))

Modelled(input) == ModelledParse(parseEquationToFunction(input))

----------------------------------------------------------------------------
(* equations.js: sampleCurve and sampleCurveY                              *)
(* The abscissa is carried in ticks, 2^MAX_DEPTH to the quantum, so that   *)
(* every midpoint down to the deepest subdivision is a whole number; the   *)
(* function is evaluated at the nearest quantum and the points returned    *)
(* are in quanta.  A value beyond ValueCap is taken to be beyond MAX_Y     *)
(* (1e6 world units), which the integers of the model do not reach.        *)

MAX_DEPTH == 12
\* TOL = 0.01
TOL == 100
TicksPerQuantum == 2^MAX_DEPTH
\* steepJump: |dy| > 10 / dx, that is |dy| * dx > 10 * Unit * Unit quanta^2
SteepArea == 10 * Unit * Unit

\* a sample: null, or a number
None == [nul |-> TRUE, v |-> 0]
Some(v) == [nul |-> FALSE, v |-> v]

ToQuanta(t) == MulDiv(t, 1, TicksPerQuantum)

\* cond = (x, y) => { try { return !!cfun(x, y, Math) } catch { return false } }
\* (a thrown exception is not truthy)
condHolds(cond, x, y) == Truthy(evaluate(cond, [x |-> Num(x), y |-> Num(y)]))

\* the condition were sampleCurveY to call it as cond(y, x)
condAtUnswapped(which, cond, t, v) == condHolds(cond, t, v)

\* sampleCurve and sampleCurveY are the same code with x and y exchanged:
\* sampleCurve walks t = x and takes v = f(x), sampleCurveY walks t = y and
\* takes v = g(y).  The operators below take the name of the function
\* that is running.
condAt(which, cond, t, v) ==
  IF which = "sampleCurveY" THEN condHolds(cond, v, t) ELSE condHolds(cond, t, v)

\* the arguments f or g is called with
argumentAt(which, t) ==
  IF which = "sampleCurveY" THEN [x |-> Throws, y |-> Num(t)]
  ELSE [x |-> Num(t), y |-> Throws]

\* the sample for the value v computed at t: null when v is not a finite
\* number within MAX_Y or the condition fails
sampleOf(which, fn, t, v) ==
  IF v.k # "num" THEN None
  ELSE IF fn.hasCond /\ ~condAt(which, fn.cond, t, v.v) THEN None
  ELSE Some(v.v)

\* safeEval at the quantum q
safeEvalAt(which, fn, q) == sampleOf(which, fn, q, evaluate(fn.f, argumentAt(which, q)))

\* safeEval of the function that is running, at the tick t
safeEvalIn(which, fn, t) == safeEvalAt(which, fn, ToQuanta(t))

\* sampleCurve's safeEval: y = f(x), or null; x in ticks
safeEval(fn, x) == safeEvalIn("sampleCurve", fn, x)

\* sampleCurveY's safeEval: x = g(y), or null; y in ticks
safeEvalY(fn, y) == safeEvalIn("sampleCurveY", fn, y)

\* A sample the samplers keep: the value v at the tick t, or the break
\* marker null
Kept(t, v) == [t |-> t, v |-> v, nul |-> FALSE]
Gap == [t |-> 0, v |-> 0, nul |-> TRUE]

\* addBreak with its test of the last element turned round
addBreakInverted(pts) ==
  IF Len(pts) = 0 \/ pts[Len(pts)].nul THEN Append(pts, Gap) ELSE pts

addBreak(pts) ==
  IF Len(pts) = 0 \/ ~pts[Len(pts)].nul THEN Append(pts, Gap) ELSE pts

\* the value at tm of the chord from (t0, v0) to (t1, v1)
chordAt(t0, v0, t1, v1, tm) == v0 + MulDiv(v1 - v0, tm - t0, t1 - t0)

\* |v1 - v0| > 10 / max(1e-6, t1 - t0); below 2048 ticks the right-hand
\* side is beyond twice ValueCap
steepJump(t0, v0, t1, v1) ==
  /\ t1 - t0 >= TicksPerQuantum \div 2
  /\ Abs(v1 - v0) > MulDivNat(SteepArea, TicksPerQuantum, t1 - t0)[1]

\* the midpoint is off the chord by more than TOL, or the jump is steep
bends(t0, v0, tm, vm, t1, v1) ==
  \/ (t1 # t0 /\ Abs(vm - chordAt(t0, v0, t1, v1, tm)) > TOL)
  \/ steepJump(t0, v0, t1, v1)

\* pts.push(end) unless the midpoint has that place
pushEnd(pts, tm, t1, v1) == IF t1 # tm THEN Append(pts, Kept(t1, v1)) ELSE pts
\* pts.push(mid) unless the last point has that place
pushMid(pts, tm, vm) ==
  IF tm # pts[Len(pts)].t THEN Append(pts, Kept(tm, vm)) ELSE pts
\* pts.push(start) when the polyline is empty or broken
pushStart(pts, t0, v0) ==
  IF Len(pts) = 0 \/ pts[Len(pts)].nul THEN Append(pts, Kept(t0, v0)) ELSE pts

\* subdivide: accept the segment
accept(pts, t0, v0, tm, vm, t1, v1) ==
  pushEnd(pushMid(pushStart(pts, t0, v0), tm, vm), tm, t1, v1)

\* the midpoint of t0 and t1
Mid(t0, t1) == (t0 + t1) \div 2

\* Where a call of subdivide stops it either breaks the polyline or accepts
\* its segment.  Where it stops is decided by the samples alone; what the
\* stop does to pts depends on the pts the earlier stops left.  nulls are
\* the places of the stop where safeEval returned null.
Stop(brk, t0, v0, tm, vm, t1, v1, nulls) ==
  [brk |-> brk, t0 |-> t0, v0 |-> v0, tm |-> tm, vm |-> vm, t1 |-> t1, v1 |-> v1,
   nulls |-> nulls]

\* the call subdivide(t0, v0, t1, v1, depth) that ends in addBreak(): an end
\* is null, or both ends are samples and the midpoint is null
BreakStop(t0, v0, t1, v1) ==
  Stop(TRUE, t0, 0, Mid(t0, t1), 0, t1, 0,
       IF v0.nul \/ v1.nul
         THEN (IF v0.nul THEN {t0} ELSE {}) \cup (IF v1.nul THEN {t1} ELSE {})
         ELSE {Mid(t0, t1)})

\* the stops of subdivide(t0, v0, t1, v1, depth), in order.  v0 and v1 are
\* samples or null; vm is safeEval(tm) for the midpoint tm, which the code
\* computes unless v0 and v1 are both null
RECURSIVE subdivide(_, _, _, _, _, _, _, _)
subdivide(which, fn, t0, v0, t1, v1, vm, depth) ==
  IF v0.nul /\ v1.nul THEN <<BreakStop(t0, v0, t1, v1)>>
  ELSE IF /\ depth < MAX_DEPTH
          /\ (v0.nul \/ v1.nul \/ vm.nul
                \/ bends(t0, v0.v, Mid(t0, t1), vm.v, t1, v1.v))
    THEN subdivide(which, fn, t0, v0, Mid(t0, t1), vm,
                   safeEvalIn(which, fn, Mid(t0, Mid(t0, t1))), depth + 1)
           \o subdivide(which, fn, Mid(t0, t1), vm, t1, v1,
                        safeEvalIn(which, fn, Mid(Mid(t0, t1), t1)), depth + 1)
  ELSE IF v0.nul \/ v1.nul \/ vm.nul THEN <<BreakStop(t0, v0, t1, v1)>>
  ELSE <<Stop(FALSE, t0, v0.v, Mid(t0, t1), vm.v, t1, v1.v, {})>>

\* the place after k coarse steps: x1 = Math.min(x1 + coarse, xMax)
stepAt(lo, hi, coarse, k) == Min(lo + k * coarse, hi)
\* the number of iterations of the loop over coarse steps
stepCount(lo, hi, coarse) ==
  IF lo > hi THEN 0
  ELSE IF lo = hi THEN 1
  ELSE (hi - lo + coarse - 1) \div coarse

\* the samples of the loop over coarse steps: y0 = safeEval(x0) before the
\* loop and y1 = safeEval(x1) in iteration k
coarseSamples(which, fn, lo, hi, coarse) ==
  [k \in 0..stepCount(lo, hi, coarse) |-> safeEvalIn(which, fn, stepAt(lo, hi, coarse, k))]

\* iteration k of the loop over coarse steps: subdivide(x0, y0, x1, y1, 0)
coarseStep(which, fn, ys, t0, t1, k) ==
  subdivide(which, fn, t0, ys[k - 1], t1, ys[k], safeEvalIn(which, fn, Mid(t0, t1)), 0)

\* the stops of iterations a..b of the loop over coarse steps, in order; the
\* range is walked by halves
RECURSIVE coarseSteps(_, _, _, _, _, _, _, _)
coarseSteps(which, fn, ys, lo, hi, coarse, a, b) ==
  IF a > b THEN <<>>
  ELSE IF a = b
    THEN coarseStep(which, fn, ys, stepAt(lo, hi, coarse, a - 1),
                    stepAt(lo, hi, coarse, a), a)
  ELSE coarseSteps(which, fn, ys, lo, hi, coarse, a, (a + b) \div 2)
         \o coarseSteps(which, fn, ys, lo, hi, coarse, (a + b) \div 2 + 1, b)

\* pts after the stop
stopped(pts, stop) ==
  IF stop.brk THEN addBreak(pts)
  ELSE accept(pts, stop.t0, stop.v0, stop.tm, stop.vm, stop.t1, stop.v1)

\* pts after the stops a..b, in order, by halves
RECURSIVE stopAll(_, _, _, _)
stopAll(stops, pts, a, b) ==
  IF Ready(pts) /\ a > b THEN pts
  ELSE IF a = b THEN stopped(pts, stops[a])
  ELSE stopAll(stops, stopAll(stops, pts, a, (a + b) \div 2), (a + b) \div 2 + 1, b)

\* pts after every stop
built(stops) == IF Ready(stops) THEN stopAll(stops, <<>>, 1, Len(stops)) ELSE <<>>

\* one iteration of the clean-up loop: drop a repeated point and a repeated
\* or leading break
\* keep without the test that out is not empty before a break
keepLeading(out, p) ==
  LET last == IF Len(out) = 0 THEN Kept(0, 0) ELSE out[Len(out)]
  IN IF p.nul THEN (IF ~last.nul THEN Append(out, Gap) ELSE out)
     ELSE IF Len(out) = 0 \/ last.nul \/ p.t # last.t \/ p.v # last.v
       THEN Append(out, p)
     ELSE out

keep(out, p) ==
  LET last == IF Len(out) = 0 THEN Gap ELSE out[Len(out)]
  IN IF p.nul THEN (IF ~last.nul THEN Append(out, Gap) ELSE out)
     ELSE IF last.nul \/ p.t # last.t \/ p.v # last.v THEN Append(out, p)
     ELSE out

\* iterations a..b of the clean-up loop, in order, by halves
RECURSIVE cleanUp(_, _, _, _)
cleanUp(pts, out, a, b) ==
  IF Ready(out) /\ a > b THEN out
  ELSE IF a = b THEN keep(out, pts[a])
  ELSE cleanUp(pts, cleanUp(pts, out, a, (a + b) \div 2), (a + b) \div 2 + 1, b)

\* the cleaned polyline of pts
cleaned(pts) == IF Ready(pts) THEN cleanUp(pts, <<>>, 1, Len(pts)) ELSE <<>>

\* the loop over coarse steps from lo to hi, in ticks, once the coarse
\* samples ys have been taken
coarseStops(which, fn, ys, lo, hi, coarse) ==
  IF Ready(ys)
    THEN coarseSteps(which, fn, ys, lo, hi, coarse, 1, stepCount(lo, hi, coarse))
    ELSE <<>>

\* the stops of the whole loop over coarse steps
stopsOf(which, fn, lo, hi, coarse) ==
  coarseStops(which, fn, coarseSamples(which, fn, lo, hi, coarse), lo, hi, coarse)

\* the polyline the sampler returns for the range lo..hi, in ticks
sampled(which, fn, lo, hi, coarse) == cleaned(built(stopsOf(which, fn, lo, hi, coarse)))

\* coarse = Math.max(step, (max - min) / 64), in ticks
coarseOf(min, max, step) ==
  Max(step * TicksPerQuantum, ((max - min) * TicksPerQuantum) \div 64)

\* the points { x, y } of sampleCurve
pointsOf(out) ==
  [k \in 1..Len(out) |->
     IF out[k].nul THEN Null ELSE Pt(ToQuanta(out[k].t), out[k].v)]

\* the points { x: g(y), y } of sampleCurveY
pointsOfY(out) ==
  [k \in 1..Len(out) |->
     IF out[k].nul THEN Null ELSE Pt(out[k].v, ToQuanta(out[k].t))]

\* fn is the parsed equation (f and cond); bounds and step in quanta
sampleCurve(fn, xMin, xMax, step) ==
  pointsOf(sampled("sampleCurve", fn, xMin * TicksPerQuantum, xMax * TicksPerQuantum,
                   coarseOf(xMin, xMax, step)))

sampleCurveY(fn, yMin, yMax, step) ==
  pointsOfY(sampled("sampleCurveY", fn, yMin * TicksPerQuantum, yMax * TicksPerQuantum,
                    coarseOf(yMin, yMax, step)))

----------------------------------------------------------------------------
(* game.js: the world the Game passes to the physics                       *)

\* this.gravity = -20.0, in quanta per second squared
gravity == -200000

\* Game.resize(): world bounds centred, yHalf = 8, xHalf = yHalf * aspect
resize(canvas) ==
  LET yHalf == 8 * Unit
      xHalf == MulDiv(yHalf, canvas.width, canvas.height)
  IN [xMin |-> -xHalf, xMax |-> xHalf, yMin |-> -yHalf, yMax |-> yHalf]

\* the canvas the page gives the Game
Canvas == [width |-> 600, height |-> 600]

\* radius of the balls the Game spawns (0.12)
BallRadius == 1200

----------------------------------------------------------------------------
(* game.js: the Game                                                       *)
(* A Game object is a record g of its fields; made counts the Ball objects *)
(* constructed so far.  Math.random() is a sequence of draws in            *)
(* thousandths, read round and round in the order the code calls it.       *)

\* this.spawnInterval = 0.08, in milliseconds
spawnInterval == 80
\* the capture radius update() passes to checkStarCollection: 0.35
CaptureRadius == 3500
\* this.balls.length > 150
BallCap == 150

\* this.preview = null; otherwise { expr, f, df, points }
NoPreview ==
  [nul |-> TRUE, expr |-> <<>>, f |-> NoNode, df |-> buildDerivative(NoNode),
   points |-> <<>>]

\* this.beginnerLine = null; otherwise { type, m, b } or { type, a, b, c }
NoLine == [type |-> "null", m |-> 0, a |-> 0, b |-> 0, c |-> 0]

\* the k-th call of Math.random(), in thousandths
Draw(draws, k) == draws[((k - 1) % Len(draws)) + 1]
\* randRange(min, max) with the draw r
randRange(min, max, r) == MulDiv(r, max - min, PerMille) + min

\* the decimal digits of n >= 0
RECURSIVE IntChars(_)
IntChars(n) ==
  IF n < 10 THEN <<Digits[n + 1]>> ELSE Append(IntChars(n \div 10), Digits[(n % 10) + 1])

\* v.toFixed(2)
toFixed(v) ==
  LET cents == MulDiv(Abs(v), 100, Unit)
  IN (IF v < 0 THEN <<"-">> ELSE <<>>)
       \o IntChars(cents \div 100)
       \o <<".", Digits[((cents \div 10) % 10) + 1], Digits[(cents % 10) + 1]>>

palette == <<"#4ade80", "#f472b6", "#fbbf24", "#60a5fa", "#a78bfa">>
pickCurveColor(g) == palette[(Len(g.curves) % Len(palette)) + 1]

\* parse and sample, as submitEquation and setPreviewEquation both do
curvePoints(g, parsed) ==
  IF parsed.type = "xOfY"
    THEN sampleCurveY(parsed, g.world.yMin, g.world.yMax, 500)
    ELSE sampleCurve(parsed, g.world.xMin, g.world.xMax, 500)

NoError == NotThrown

\* submitEquation with the new curve replacing the list instead of joining it
submitEquationFresh(g, inputStr) ==
  LET parsed == parseEquationToFunction(inputStr)
      curve == [expr |-> parsed.expr, f |-> parsed.f, df |-> parsed.df,
                points |-> curvePoints(g, parsed), color |-> pickCurveColor(g),
                thickness |-> 2]
  IN IF parsed.ok
       THEN [g |-> [g EXCEPT !.curves = <<curve>>],
             ok |-> TRUE, error |-> NoError, threw |-> FALSE]
       ELSE [g |-> g, ok |-> FALSE, error |-> parsed.error, threw |-> FALSE]

\* the curve submitEquation pushes
curveOf(g, parsed) ==
  [expr |-> parsed.expr, f |-> parsed.f, df |-> parsed.df,
   points |-> curvePoints(g, parsed), color |-> pickCurveColor(g), thickness |-> 2]

\* submitEquation once the text has been parsed
submitParsed(g, parsed) ==
  IF parsed.ok
    THEN [g |-> [g EXCEPT !.curves = Append(g.curves, curveOf(g, parsed))],
          ok |-> TRUE, error |-> NoError, threw |-> FALSE]
    ELSE [g |-> g, ok |-> FALSE, error |-> parsed.error, threw |-> FALSE]

\* submitEquation(inputStr): the Game after the call and the returned
\* { ok, error }; the whole body is inside try / catch
submitEquation(g, inputStr) == submitParsed(g, parseEquationToFunction(inputStr))

\* setPreviewEquation were the catch block to leave the preview as it was
previewParsedKeeping(g, parsed) ==
  IF ~parsed.ok THEN g
  ELSE [g EXCEPT !.preview =
          [nul |-> FALSE, expr |-> parsed.expr, f |-> parsed.f,
           df |-> parsed.df, points |-> curvePoints(g, parsed)]]

\* setPreviewEquation once the text has been parsed: a throw of the parser
\* or the sampler clears the preview
previewParsed(g, parsed) ==
  IF ~parsed.ok THEN [g EXCEPT !.preview = NoPreview]
  ELSE [g EXCEPT !.preview =
          [nul |-> FALSE, expr |-> parsed.expr, f |-> parsed.f,
           df |-> parsed.df, points |-> curvePoints(g, parsed)]]

\* setPreviewEquation(inputStr)
setPreviewEquation(g, inputStr) ==
  IF Len(trim(inputStr)) = 0 THEN [g EXCEPT !.preview = NoPreview]
  ELSE previewParsed(g, parseEquationToFunction(inputStr))

\* launchBurst(count)
launchBurst(g, count) ==
  [g EXCEPT !.burstTotal = count, !.spawned = 0, !.spawnTimer = 0, !.launched = TRUE]

\* the star x, y with y clamped to 0.9 of the world's height
ClampedStar(g, x, y) ==
  Star(x, Max(MulDiv(g.world.yMin, 9, 10), Min(MulDiv(g.world.yMax, 9, 10), y)))

slopes == <<-15000, -10000, -5000, 5000, 10000, 15000>>

\* the drop position: clamped half a unit inside the world
ClampedDrop(g, x) ==
  Max(g.world.xMin + Unit \div 2, Min(g.world.xMax - Unit \div 2, x))

RECURSIVE SeqMin(_, _), SeqMax(_, _), SeqSum(_, _)
SeqMin(xs, k) == IF k = Len(xs) THEN xs[k] ELSE Min(xs[k], SeqMin(xs, k + 1))
SeqMax(xs, k) == IF k = Len(xs) THEN xs[k] ELSE Max(xs[k], SeqMax(xs, k + 1))
SeqSum(xs, k) == IF k > Len(xs) THEN 0 ELSE xs[k] + SeqSum(xs, k + 1)

\* the abscissae of the stars
starXs(placed) == [k \in 1..Len(placed) |-> placed[k].x]
\* (minStarX + maxStarX) / 2
midX(xs) == (SeqMin(xs, 1) + SeqMax(xs, 1)) \div 2
\* the mean of the abscissae
meanX(xs) == MulDiv(SeqSum(xs, 1), 1, Len(xs))

\* beginner mode: the stars placed, the helper line, and the dropper over the
\* middle of the stars, offset by the draw r
beginnerPlaced(g, placed, line, r) ==
  [g EXCEPT !.stars = placed, !.beginnerLine = line,
            !.dropX = ClampedDrop(g, midX(starXs(placed)) + randRange(-Unit, Unit, r))]

\* the i-th of n abscissae spread evenly over 0.8 of the world's width
spot(g, n, i) ==
  MulDiv(g.world.xMin, 8, 10)
    + (IF n = 1 THEN (MulDiv(g.world.xMax, 8, 10) - MulDiv(g.world.xMin, 8, 10)) \div 2
       ELSE MulDiv(i, MulDiv(g.world.xMax, 8, 10) - MulDiv(g.world.xMin, 8, 10), n - 1))
midY(g) == (g.world.yMin + g.world.yMax) \div 2
amplitude(g) == (g.world.yMax - g.world.yMin) \div 4

\* a star of the quadratic pattern at x, its ordinate off the curve by dy
quadraticStar(g, qa, qb, x, dy) ==
  ClampedStar(g, x, MulDiv(MulDiv(qa, x, Unit), x, Unit) + MulDiv(qb, x, Unit)
                      + midY(g) + dy)
\* the quadratic pattern: draws 2, 3 are a and b; two draws per star
quadraticStars(g, n, draws, qa, qb) ==
  beginnerPlaced(g,
    [k \in 1..n |->
       quadraticStar(g, qa, qb,
                     spot(g, n, k - 1) + randRange(-2000, 2000, Draw(draws, 2 + 2 * k)),
                     randRange(-3000, 3000, Draw(draws, 3 + 2 * k)))],
    [NoLine EXCEPT !.type = "quadratic", !.a = qa, !.b = qb, !.c = midY(g)],
    Draw(draws, 4 + 2 * n))

\* a star of the sinusoidal pattern at x
sinStar(g, sb, x, dy) ==
  ClampedStar(g, x, MulDiv(amplitude(g), sin(Num(MulDiv(sb, x, Unit))).v, Unit)
                      + midY(g) + dy)
\* the sinusoidal pattern: draw 2 is b; two draws per star
sinStars(g, n, draws, sb) ==
  beginnerPlaced(g,
    [k \in 1..n |->
       sinStar(g, sb,
               spot(g, n, k - 1) + randRange(-2000, 2000, Draw(draws, 1 + 2 * k)),
               randRange(-3000, 3000, Draw(draws, 2 + 2 * k)))],
    [NoLine EXCEPT !.type = "sin", !.a = amplitude(g), !.b = sb, !.c = midY(g)],
    Draw(draws, 3 + 2 * n))

\* a star of the linear pattern at x
linearStar(g, m, x, dy) == ClampedStar(g, x, MulDiv(m, x, Unit) + midY(g) + dy)
\* the linear pattern: draw 2 picks the slope; two draws per star
linearStars(g, n, draws, m) ==
  beginnerPlaced(g,
    [k \in 1..n |->
       linearStar(g, m,
                  spot(g, n, k - 1) + randRange(-3000, 3000, Draw(draws, 1 + 2 * k)),
                  randRange(-4000, 4000, Draw(draws, 2 + 2 * k)))],
    [NoLine EXCEPT !.type = "linear", !.m = m, !.b = midY(g)],
    Draw(draws, 3 + 2 * n))

\* generateStars(n) in beginner mode: patternType = Math.floor(random * 3)
beginnerStars(g, n, draws) ==
  IF (Draw(draws, 1) * 3) \div PerMille = 0
    THEN quadraticStars(g, n, draws, randRange(-2000, 2000, Draw(draws, 2)),
                        randRange(-Unit, Unit, Draw(draws, 3)))
  ELSE IF (Draw(draws, 1) * 3) \div PerMille = 1
    THEN sinStars(g, n, draws, randRange(Unit \div 2, (3 * Unit) \div 2, Draw(draws, 2)))
  ELSE linearStars(g, n, draws,
                   slopes[((Draw(draws, 2) * Len(slopes)) \div PerMille) + 1])

\* a star drawn anywhere: two draws
randomStar(g, draws, k) ==
  Star(randRange(MulDiv(g.world.xMin, 8, 10), MulDiv(g.world.xMax, 8, 10), Draw(draws, k)),
       randRange(MulDiv(g.world.yMin, 2, 10), MulDiv(g.world.yMax, 6, 10),
                 Draw(draws, k + 1)))

\* x > xMin && x < xMax && y > yMin && y < yMax
insideWorld(g, x, y) ==
  x > g.world.xMin /\ x < g.world.xMax /\ y > g.world.yMin /\ y < g.world.yMax

\* the circular pattern with its next star put first
withStar(star, rest) == [stars |-> <<star>> \o rest.stars, k |-> rest.k]

\* the stars i.. of the circular pattern; k is the next draw.  A star that
\* falls outside the world is replaced by a random star
RECURSIVE circleStars(_, _, _, _, _, _, _, _)
\* the star at (x, y) of the circle, and the stars after it
circleFrom(g, n, draws, cx, cy, spread, i, k, x, y) ==
  IF insideWorld(g, x, y)
    THEN withStar(Star(x, y), circleStars(g, n, draws, cx, cy, spread, i + 1, k + 1))
    ELSE withStar(randomStar(g, draws, k + 1),
                  circleStars(g, n, draws, cx, cy, spread, i + 1, k + 3))

\* the star at the angle and distance from the centre, and the stars after it
circleAt(g, n, draws, cx, cy, spread, i, k, angle, distance) ==
  circleFrom(g, n, draws, cx, cy, spread, i, k,
             cx + MulDiv(cos(Num(angle)).v, distance, Unit),
             cy + MulDiv(sin(Num(angle)).v, distance, Unit))

circleStars(g, n, draws, cx, cy, spread, i, k) ==
  IF i >= n THEN [stars |-> <<>>, k |-> k]
  ELSE circleAt(g, n, draws, cx, cy, spread, i, k, MulDiv(i, 2 * PI, n),
                randRange(Unit \div 2, spread, Draw(draws, k)))

\* pro mode: the stars placed and the dropper over their mean, offset by
\* the draw r; no stars leave the dropper where it was
proPlaced(g, placed, r) ==
  [g EXCEPT !.stars = placed, !.beginnerLine = NoLine,
            !.dropX = IF Len(placed) > 0
                        THEN ClampedDrop(g, meanX(starXs(placed))
                                              + randRange(-2 * Unit, 2 * Unit, r))
                        ELSE g.dropX]

\* the circular pattern placed; circle.k is the next draw
proCircle(g, draws, circle) == proPlaced(g, circle.stars, Draw(draws, circle.k))

\* generateStars(n) in pro mode: usePattern = Math.random() < 0.7
proStars(g, n, draws) ==
  IF Draw(draws, 1) < 700
    THEN proCircle(g, draws,
           circleStars(g, n, draws,
             randRange(MulDiv(g.world.xMin, 6, 10), MulDiv(g.world.xMax, 6, 10),
                       Draw(draws, 2)),
             randRange(MulDiv(g.world.yMin, 3, 10), MulDiv(g.world.yMax, 6, 10),
                       Draw(draws, 3)),
             randRange(Unit, 3 * Unit, Draw(draws, 4)), 0, 5))
    ELSE proPlaced(g, [k \in 1..n |-> randomStar(g, draws, 2 * k)],
                   Draw(draws, 2 + 2 * n))

generateStars(g, n, draws) ==
  IF g.mode = "beginner" THEN beginnerStars(g, n, draws) ELSE proStars(g, n, draws)

\* seedBeginnerHelper(): const { m, b } = this.beginnerLine; m.toFixed(2) is
\* a TypeError when the line has no m (the quadratic and sinusoidal
\* patterns).  generateStars has always set beginnerLine when the mode is
\* beginner, so the regression after the if is never reached.
helperEquation(line) ==
  <<"y", " ", "=", " ">> \o toFixed(line.m) \o <<"x", " ", "+", " ">> \o toFixed(line.b)

seedBeginnerHelper(g) ==
  IF Len(g.stars) = 0 THEN [g |-> g, threw |-> FALSE]
  ELSE IF g.beginnerLine.type # "linear" THEN [g |-> g, threw |-> TRUE]
  ELSE [g |-> submitEquation(g, helperEquation(g.beginnerLine)).g, threw |-> FALSE]

\* spawnBall()
spawnBall(g) ==
  [g EXCEPT !.balls = Append(g.balls,
                             Ball(g.made + 1, g.dropX, g.world.yMax - Unit \div 2,
                                  BallRadius)),
            !.spawned = g.spawned + 1,
            !.made = g.made + 1]

\* the spawn step were it to leave the timer running when it spawns
spawnStepKeepingTimer(g, dt) ==
  LET timed == [g EXCEPT !.spawnTimer = g.spawnTimer + dt]
      spawnedNow == IF timed.spawned < timed.burstTotal /\ timed.spawnTimer >= spawnInterval
                      THEN spawnBall(timed)
                      ELSE timed
  IN IF ~g.launched THEN g
     ELSE [spawnedNow EXCEPT !.launched = spawnedNow.spawned < spawnedNow.burstTotal]

\* update(dt): spawn balls (only when launched)
spawnStep(g, dt) ==
  LET timed == [g EXCEPT !.spawnTimer = g.spawnTimer + dt]
      spawnedNow == IF timed.spawned < timed.burstTotal /\ timed.spawnTimer >= spawnInterval
                      THEN spawnBall([timed EXCEPT !.spawnTimer = 0])
                      ELSE timed
  IN IF ~g.launched THEN g
     ELSE [spawnedNow EXCEPT !.launched = spawnedNow.spawned < spawnedNow.burstTotal]

\* update(dt): the filter that removes balls outside the world
staysInWorld(g, b) ==
  /\ ~b.oob
  /\ (b.y + b.r) >= g.world.yMin
  /\ (b.y - b.r) <= g.world.yMax
  /\ (b.x + b.r) >= g.world.xMin
  /\ (b.x - b.r) <= g.world.xMax

\* this.balls.filter(...)
culled(g, moved) == SelectSeq(moved, LAMBDA b : staysInWorld(g, b))

\* the trim were it to splice the excess off the end of the list
cappedOldest(kept) ==
  IF Len(kept) > BallCap THEN SubSeq(kept, 1, BallCap)
  ELSE kept

\* if (this.balls.length > 150) this.balls.splice(0, this.balls.length - 150)
capped(kept) ==
  IF Len(kept) > BallCap THEN SubSeq(kept, Len(kept) - BallCap + 1, Len(kept))
  ELSE kept

\* the balls as updateBalls leaves them
ballsOf(res) == [i \in 1..Len(res) |-> res[i].ball]

\* update(dt): the balls as updateBalls(this.balls, dt, ...) leaves them
movedBalls(g, dt) == ballsOf(updateBalls(g.balls, dt, gravity, g.world, g.curves))

\* update(dt): the filter and the trim, on the balls as updateBalls left them
trimmed(g, moved) == [g EXCEPT !.balls = capped(culled(g, moved))]

\* update(dt): integrate, cull, trim to the cap
physicsStep(g, dt) == trimmed(g, movedBalls(g, dt))

\* update(dt): the Game once checkStarCollection has returned res
collect(moved, res) ==
  [g |-> [moved EXCEPT !.balls = res.balls, !.stars = res.stars], threw |-> FALSE,
   count |-> res.count, newly |-> res.newly]

\* update(dt): stars collection
collected(moved) ==
  collect(moved, checkStarCollection(moved.balls, moved.stars, CaptureRadius))

\* the new level were generateStars called before this.level++
nextLevelStarsFirst(g, draws) ==
  [generateStars([g EXCEPT !.level = g.level + 1], 5 + Min(5, g.level), draws)
     EXCEPT !.spawnTimer = 0, !.spawned = 0, !.launched = FALSE]

\* update(dt): this.level++; generateStars; reset the burst
nextLevel(g, draws) ==
  [generateStars([g EXCEPT !.level = g.level + 1], 5 + Min(5, g.level + 1), draws)
     EXCEPT !.spawnTimer = 0, !.spawned = 0, !.launched = FALSE]

\* update(dt): the result c of the call when the helper returned seeded
helped(c, seeded) == [c EXCEPT !.g = seeded.g, !.threw = seeded.threw]

\* update(dt): if (this.mode === 'beginner') this.seedBeginnerHelper()
seedIfBeginner(c, fresh) ==
  IF fresh.mode = "beginner" THEN helped(c, seedBeginnerHelper(fresh))
  ELSE [c EXCEPT !.g = fresh]

\* update(dt): level complete when every star is collected
levelUp(c, draws) ==
  IF c.count = Len(c.g.stars) /\ Len(c.g.stars) > 0
    THEN seedIfBeginner(c, nextLevel(c.g, draws))
    ELSE c

\* update(dt): the Game after the call, whether the call threw, and what
\* checkStarCollection returned
update(g, dt, draws) == levelUp(collected(physicsStep(spawnStep(g, dt), dt)), draws)

\* update(dt) from the filter on: spawned is the Game after the spawn step
\* and moved its balls as updateBalls left them
updateMoved(spawned, moved, draws) == levelUp(collected(trimmed(spawned, moved)), draws)

\* setMode(mode): clear and reseed; the Game after the call and whether the
\* call threw
setMode(g, mode, draws) ==
  IF mode \notin {"beginner", "pro"} THEN [g |-> g, threw |-> FALSE]
  ELSE LET cleared == [g EXCEPT !.mode = mode, !.balls = <<>>, !.curves = <<>>,
                                !.preview = NoPreview, !.spawnTimer = 0,
                                !.spawned = 0, !.launched = FALSE]
           fresh == generateStars(cleared, 5 + Min(5, g.level), draws)
       IN IF mode = "beginner" THEN seedBeginnerHelper(fresh)
          ELSE [g |-> fresh, threw |-> FALSE]

\* reset(): clear, generateStars(5), reset the burst, re-seed the helper; the
\* Game after the call and whether the call threw
reset(g, draws) ==
  LET cleared == [g EXCEPT !.balls = <<>>, !.curves = <<>>, !.preview = NoPreview]
      fresh == [generateStars(cleared, 5, draws)
                  EXCEPT !.spawnTimer = 0, !.spawned = 0, !.launched = FALSE]
  IN IF fresh.mode = "beginner" THEN seedBeginnerHelper(fresh)
     ELSE [g |-> fresh, threw |-> FALSE]

\* new Game(canvas, statusEls): the fields, resize(), generateStars(5), the
\* beginner helper; a throw leaves no Game
construct(canvas, draws) ==
  LET g0 == [world |-> resize(canvas), balls |-> <<>>, stars |-> <<>>,
             curves |-> <<>>, preview |-> NoPreview, spawnTimer |-> 0,
             burstTotal |-> 20, spawned |-> 0, launched |-> FALSE, dropX |-> 0,
             level |-> 1, mode |-> "beginner", beginnerLine |-> NoLine,
             made |-> 0, loop |-> TRUE]
  IN seedBeginnerHelper(generateStars(g0, 5, draws))

----------------------------------------------------------------------------
(* The physics functions called directly: PhysSpec                         *)
(* updateBalls and checkStarCollection are exported functions; here a      *)
(* caller owns the lists, calls them in any order, and between calls moves *)
(* balls, removes balls and pushes new balls.                              *)

\* the last call: its name and arguments, the lists as they were at entry,
\* per ball what updateBalls did, and checkStarCollection's return value
NoCall ==
  [op |-> "none", dt |-> 0, radius |-> 0, balls |-> <<>>, stars |-> <<>>,
   info |-> <<>>, count |-> 0, newly |-> FALSE]

\* no Game: the physics functions are called on their own
NoGame == [loop |-> FALSE]

\* bounds of the state space
MaxSteps == 3
MaxBalls == 3

\* tick lengths in milliseconds: the frame loop clamps dt to 0.033
Dts == {16, 33}
\* capture radii: the default 0.3 and the Game's 0.35
Radii == {3000, 3500}

\* the polylines of the playfield:
\*  1: a floor, a 3-4-5 slope down from its right end, a break, a ledge
\*  2: a short floor just below floor 1, later in curve order
\*  3: a floor just below the bottom edge of the world
Playfield ==
  << [points |-> <<Pt(-30000, 0), Pt(-10000, 0), Pt(2000, -16000), Null,
                   Pt(20000, -10000), Pt(40000, -10000)>>],
     [points |-> <<Pt(-22000, -100), Pt(-16000, -100)>>],
     [points |-> <<Pt(50000, -82500), Pt(70000, -82500)>>] >>

Moving(b, vx, vy) == [b EXCEPT !.vx = vx, !.vy = vy]

\* where a ball can be: falling onto floor 1; at rest over floors 1 and 2;
\* at rest on the slope; hovering over floor 3; below the bottom edge,
\* falling; at rest above floor 1, between the first and third star; and
\* rolling off the left end of the ledge, its centre just past the end
bFalling == Moving(Ball(0, -25000, 1500, BallRadius), 10000, -10000)
bOverTwo == Ball(0, -20000, 1200, BallRadius)
bOnSlope == Ball(0, -3000, -7250, BallRadius)
bOverLow == Ball(0, 60000, -81150, BallRadius)
bBelow == Moving(Ball(0, 30000, -81300, BallRadius), 0, -50000)
bBetween == Ball(0, -22500, 3000, BallRadius)
bOffEnd == Moving(Ball(0, 19900, -8799, BallRadius), -3000, 0)

InitialLists ==
  { <<bFalling, bBetween>>, <<bBetween, bFalling>>, <<bFalling, bOverTwo>>,
    <<bOverTwo, bOnSlope>>, <<bOverLow, bBelow>>, <<bOnSlope, bBelow>>,
    <<bOffEnd, bFalling>> }

StarField == << Star(-25000, 5000), Star(0, 50000), Star(-20000, 5500) >>

PhysInit ==
  /\ world = resize(Canvas)
  /\ curves = Playfield
  /\ stars = StarField
  /\ \E l \in InitialLists :
       balls = [i \in 1..Len(l) |-> [l[i] EXCEPT !.id = i]]
  /\ made = 2
  /\ preview = NoPreview
  /\ game = NoGame
  /\ call = NoCall
  /\ steps = 0

\* updateBalls(balls, dt, gravity, world, curves)
CallUpdateBalls(dt) ==
  /\ steps < MaxSteps
  /\ LET res == updateBalls(balls, dt, gravity, world, curves)
     IN /\ balls' = [i \in 1..Len(balls) |-> res[i].ball]
        /\ call' = [NoCall EXCEPT !.op = "updateBalls", !.dt = dt,
                      !.balls = balls, !.stars = stars,
                      !.info = [i \in 1..Len(balls) |->
                                  [kind |-> res[i].kind, best |-> res[i].best]]]
  /\ steps' = steps + 1
  /\ UNCHANGED <<world, stars, curves, made, preview, game>>

\* checkStarCollection(balls, stars, radius)
CallCheckStarCollection(radius) ==
  /\ steps < MaxSteps
  /\ LET res == checkStarCollection(balls, stars, radius)
     IN /\ balls' = res.balls
        /\ stars' = res.stars
        /\ call' = [NoCall EXCEPT !.op = "checkStarCollection",
                      !.radius = radius, !.balls = balls, !.stars = stars,
                      !.count = res.count, !.newly = res.newly]
  /\ steps' = steps + 1
  /\ UNCHANGED <<world, curves, made, preview, game>>

\* the caller moves ball i up and away
MoveBall(i) ==
  /\ steps < MaxSteps
  /\ i \in 1..Len(balls)
  /\ balls' = [balls EXCEPT ![i].x = balls[i].x + Unit, ![i].y = balls[i].y + 2 * Unit]
  /\ call' = [NoCall EXCEPT !.op = "move", !.balls = balls, !.stars = stars]
  /\ steps' = steps + 1
  /\ UNCHANGED <<world, stars, curves, made, preview, game>>

\* the caller removes ball i from the list
RemoveBall(i) ==
  /\ steps < MaxSteps
  /\ i \in 1..Len(balls)
  /\ balls' = [k \in 1..(Len(balls) - 1) |-> IF k < i THEN balls[k] ELSE balls[k + 1]]
  /\ call' = [NoCall EXCEPT !.op = "remove", !.balls = balls, !.stars = stars]
  /\ steps' = steps + 1
  /\ UNCHANGED <<world, stars, curves, made, preview, game>>

\* the caller pushes a new ball
PushBall ==
  /\ steps < MaxSteps
  /\ Len(balls) < MaxBalls
  /\ \E p \in {bBetween, bOverTwo} :
       balls' = Append(balls, [p EXCEPT !.id = made + 1])
  /\ made' = made + 1
  /\ call' = [NoCall EXCEPT !.op = "push", !.balls = balls, !.stars = stars]
  /\ steps' = steps + 1
  /\ UNCHANGED <<world, stars, curves, preview, game>>

PhysNext ==
  \/ \E dt \in Dts : CallUpdateBalls(dt)
  \/ \E radius \in Radii : CallCheckStarCollection(radius)
  \/ \E i \in 1..MaxBalls : MoveBall(i)
  \/ \E i \in 1..MaxBalls : RemoveBall(i)
  \/ PushBall

PhysSpec == PhysInit /\ [][PhysNext]_vars

----------------------------------------------------------------------------
(* The Game driven by its callers: Spec                                    *)
(* The page constructs one Game and then calls submitEquation,             *)
(* setPreviewEquation and launchBurst from its event handlers and          *)
(* update(dt) from the frame loop.                                         *)

\* bounds of the state space: curves in the list, frames run
MaxCurves == 2
MaxTicks == 3

\* frame lengths in milliseconds: the frame loop clamps dt to 0.033
FrameDts == {33}
\* launchBurst(20), as the launch button calls it
BurstCounts == {20}

\* sequences of Math.random() draws, in thousandths: a linear pattern of
\* slope 0.5 and a quadratic pattern
Draws == { <<900, 500, 250, 750>>, <<100, 300, 800>> }

\* the texts typed into the equation field
\* "y = 0.2x^2 - 3": accepted
tParabola == <<"y", " ", "=", " ", "0", ".", "2", "x", "^", "2", " ", "-", " ", "3">>
\* "x = y^2 - 4 {y > 0}": accepted, x as a function of y, with a condition
tSideways == <<"x", " ", "=", " ", "y", "^", "2", " ", "-", " ", "4", " ", "{", "y", " ", ">", " ", "0", "}">>
\* "y = -x^2": rejected by new Function: -x**2 is a SyntaxError
tNegSquare == <<"y", " ", "=", " ", "-", "x", "^", "2">>
\* "y = 2foo(x)": rejected: unknown identifier
tUnknown == <<"y", " ", "=", " ", "2", "f", "o", "o", "(", "x", ")">>
\* "": clears the preview
tEmpty == <<>>

\* "y = x % 2": rejected: a character outside the allowed set
tPercent == <<"y", " ", "=", " ", "x", " ", "%", " ", "2">>
\* "y = foo(": rejected: unknown identifier, in a text that does not compile
tUnknownOpen == <<"y", " ", "=", " ", "f", "o", "o", "(">>
\* "y = foo(x) {x > 0}": rejected: unknown identifier, after the condition
\* has been compiled
tUnknownRight == <<"y", " ", "=", " ", "f", "o", "o", "(", "x", ")", " ", "{", "x", " ", ">", " ", "0", "}">>
\* "y = foo(x) {bar > 0}": rejected: unknown identifier in the condition
tUnknownBoth == <<"y", " ", "=", " ", "f", "o", "o", "(", "x", ")", " ", "{", "b", "a", "r", " ", ">", " ", "0", "}">>

Texts ==
  {tParabola, tSideways, tNegSquare, tUnknown, tPercent, tUnknownOpen,
   tUnknownRight, tUnknownBoth}
\* "  ": nothing but spaces, clears the preview
tBlank == <<" ", " ">>
PreviewTexts == {tParabola, tSideways, tUnknown, tEmpty, tBlank}

\* the Game object the variables hold
TheGame ==
  [world |-> world, balls |-> balls, stars |-> stars, curves |-> curves,
   preview |-> preview, made |-> made, spawnTimer |-> game.spawnTimer,
   burstTotal |-> game.burstTotal, spawned |-> game.spawned,
   launched |-> game.launched, dropX |-> game.dropX, level |-> game.level,
   mode |-> game.mode, beginnerLine |-> game.beginnerLine, loop |-> game.loop]

FieldsOf(g) ==
  [spawnTimer |-> g.spawnTimer, burstTotal |-> g.burstTotal, spawned |-> g.spawned,
   launched |-> g.launched, dropX |-> g.dropX, level |-> g.level, mode |-> g.mode,
   beginnerLine |-> g.beginnerLine, loop |-> g.loop]

\* the variables hold g after the step
Becomes(g) ==
  /\ world' = g.world
  /\ balls' = g.balls
  /\ stars' = g.stars
  /\ curves' = g.curves
  /\ preview' = g.preview
  /\ made' = g.made
  /\ game' = FieldsOf(g)

\* the last call on the Game when it was submitEquation: its argument, what
\* it returned, and the lists and the preview as they were at entry
Other ==
  [op |-> "other", text |-> <<>>, ok |-> TRUE, error |-> NoError, threw |-> FALSE,
   curves |-> <<>>, balls |-> <<>>, stars |-> <<>>, preview |-> NoPreview]
Submission(text, res) ==
  [op |-> "submitEquation", text |-> text, ok |-> res.ok, error |-> res.error,
   threw |-> res.threw, curves |-> curves, balls |-> balls, stars |-> stars,
   preview |-> preview]

\* the last call when it was setPreviewEquation: its argument, and the lists
\* and the preview as they were at entry
Previewing(text) ==
  [op |-> "setPreviewEquation", text |-> text, ok |-> TRUE, error |-> NoError,
   threw |-> FALSE, curves |-> curves, balls |-> balls, stars |-> stars,
   preview |-> preview]

\* const game = new Game(canvas, ...): a constructor that throws leaves no Game
Init ==
  \E draws \in Draws :
    \E c \in {construct(Canvas, draws)} :
       /\ ~c.threw
       /\ world = c.g.world
       /\ balls = c.g.balls
       /\ stars = c.g.stars
       /\ curves = c.g.curves
       /\ preview = c.g.preview
       /\ made = c.g.made
       /\ game = FieldsOf(c.g)
       /\ call = Other
       /\ steps = 0

\* game.submitEquation(text)
SubmitEquation(text) ==
  /\ Len(curves) < MaxCurves \/ ~parseEquationToFunction(text).ok
  /\ \E res \in {submitEquation(TheGame, text)} :
        /\ Becomes(res.g)
        /\ call' = Submission(text, res)
  /\ UNCHANGED steps

\* game.setPreviewEquation(text)
SetPreviewEquation(text) ==
  /\ Becomes(setPreviewEquation(TheGame, text))
  /\ call' = Previewing(text)
  /\ UNCHANGED steps

\* game.launchBurst(count)
LaunchBurst(count) ==
  /\ Becomes(launchBurst(TheGame, count))
  /\ call' = Other
  /\ UNCHANGED steps

\* frame(now): game.update(dt), then requestAnimationFrame(frame) unless
\* update threw
Update(dt) ==
  /\ game.loop
  /\ steps < MaxTicks
  /\ \E draws \in Draws :
       \E res \in {update(TheGame, dt, draws)} :
          /\ Becomes([res.g EXCEPT !.loop = ~res.threw])
          /\ call' = Other
  /\ steps' = steps + 1

Next ==
  \/ \E text \in Texts : SubmitEquation(text)
  \/ \E text \in PreviewTexts : SetPreviewEquation(text)
  \/ \E count \in BurstCounts : LaunchBurst(count)
  \/ \E dt \in FrameDts : Update(dt)

Spec == Init /\ [][Next]_vars

----------------------------------------------------------------------------
(* The equation functions called directly: CurveSpec                       *)
(* parseEquationToFunction, sampleCurve and sampleCurveY are exported      *)
(* functions; here a caller parses a text and samples the result over a    *)
(* range of its choosing.                                                   *)

\* "y = 1/x"
cReciprocal == <<"y", " ", "=", " ", "1", "/", "x">>
\* "y = x^2 - 1"
cSquare == <<"y", " ", "=", " ", "x", "^", "2", " ", "-", " ", "1">>
\* "y = 10000x^3": beyond MAX_Y where |x| > 4.65
cCubic == <<"y", " ", "=", " ", "1", "0", "0", "0", "0", "x", "^", "3">>
\* "y = sqrt(x)": NaN where x < 0
cRoot == <<"y", " ", "=", " ", "s", "q", "r", "t", "(", "x", ")">>
\* "y = x + y": f(x) throws a ReferenceError, y is not defined
cFree == <<"y", " ", "=", " ", "x", " ", "+", " ", "y">>
\* "y = x {x > 1}": the condition fails where x <= 1
cRight == <<"y", " ", "=", " ", "x", " ", "{", "x", " ", ">", " ", "1", "}">>
\* "x = 1/y"
cSideReciprocal == <<"x", " ", "=", " ", "1", "/", "y">>
\* the five implicit products, and each with its * written
cDigitVar == <<"y", " ", "=", " ", "2", "x", " ", "+", " ", "3">>
cDigitVarStar == <<"y", " ", "=", " ", "2", "*", "x", " ", "+", " ", "3">>
cVarDigit == <<"y", " ", "=", " ", "x", "2", " ", "-", " ", "1">>
cVarDigitStar == <<"y", " ", "=", " ", "x", "*", "2", " ", "-", " ", "1">>
cVarParen == <<"y", " ", "=", " ", "x", "(", "x", " ", "+", " ", "1", ")">>
cVarParenStar == <<"y", " ", "=", " ", "x", "*", "(", "x", " ", "+", " ", "1", ")">>
cParenVar == <<"y", " ", "=", " ", "(", "x", " ", "+", " ", "1", ")", "x">>
cParenVarStar == <<"y", " ", "=", " ", "(", "x", " ", "+", " ", "1", ")", "*", "x">>
cParenParen == <<"y", " ", "=", " ", "(", "x", " ", "+", " ", "1", ")", "(", "x", " ", "-", " ", "1", ")">>
cParenParenStar == <<"y", " ", "=", " ", "(", "x", " ", "+", " ", "1", ")", "*", "(", "x", " ", "-", " ", "1", ")">>
\* "x = 2 y", "x = 2*y"
cSideDigitVar == <<"x", " ", "=", " ", "2", " ", "y">>
cSideDigitVarStar == <<"x", " ", "=", " ", "2", "*", "y">>

CurveTexts ==
  {cReciprocal, cSquare, cCubic, cRoot, cFree, cRight, cSideReciprocal, tSideways,
   cDigitVar, cDigitVarStar, cVarDigit, cVarDigitStar, cVarParen, cVarParenStar,
   cParenVar, cParenVarStar, cParenParen, cParenParenStar,
   cSideDigitVar, cSideDigitVarStar}

\* the ranges sampled, <<min, max>> in quanta: [-1, 2], [-2, 2], the width
\* of the Game's world [-8, 8], the single place [1, 1] and the reversed
\* [2, -1]
Ranges ==
  { <<-1 * Unit, 2 * Unit>>, <<-2 * Unit, 2 * Unit>>, <<-8 * Unit, 8 * Unit>>,
    <<Unit, Unit>>, <<2 * Unit, -1 * Unit>> }
\* the steps: 0.5, 3 and 16
Steps == {Unit \div 2, 3 * Unit, 16 * Unit}

\* the calls in which the model computes what the program computes.  Where
\* 2.15 < |x| <= 4.64 the value of 10000x^3 is beyond ValueCap and within
\* MAX_Y, and where it is within ValueCap it changes by more than TOL from
\* one quantum of x to the next; it is sampled at -8 and 8 and at a single
\* place only
InRange(text, range, step) ==
  text = cCubic =>
    \/ range[1] >= range[2]
    \/ (range = <<-8 * Unit, 8 * Unit>> /\ step >= 16 * Unit)

\* nothing called yet: the text the caller holds
Typed(text) == [op |-> "typed", text |-> text]
\* parseEquationToFunction(text) has returned or thrown
ParsedText(text, parsed) ==
  [op |-> "parseEquationToFunction", text |-> text, parsed |-> parsed]

\* sampleCurve or sampleCurveY has returned: its arguments, the stops of
\* subdivide in order, the polyline out in ticks and the points returned
Sampling(which, text, parsed, min, max, step, stops, out) ==
  [op |-> which, text |-> text, parsed |-> parsed, min |-> min, max |-> max,
   step |-> step, stops |-> stops, out |-> out,
   points |-> IF which = "sampleCurveY" THEN pointsOfY(out) ELSE pointsOf(out)]

CurveInit ==
  /\ world = resize(Canvas)
  /\ balls = <<>>
  /\ stars = <<>>
  /\ curves = <<>>
  /\ preview = NoPreview
  /\ game = NoGame
  /\ made = 0
  /\ steps = 0
  /\ \E text \in CurveTexts : call = Typed(text)

\* parseEquationToFunction(text)
CallParse ==
  /\ call.op = "typed"
  /\ \E parsed \in {parseEquationToFunction(call.text)} :
       call' = ParsedText(call.text, parsed)
  /\ UNCHANGED <<world, balls, stars, curves, preview, game, made, steps>>

\* sampleCurve(f, min, max, step, cond) or sampleCurveY(g, min, max, step,
\* cond), for the function and the condition parsed
CallSampler(which, min, max, step) ==
  /\ call.op = "parseEquationToFunction"
  /\ call.parsed.ok
  /\ call.parsed.type = (IF which = "sampleCurveY" THEN "xOfY" ELSE "yOfX")
  /\ InRange(call.text, <<min, max>>, step)
  /\ \E stops \in {stopsOf(which, call.parsed, min * TicksPerQuantum,
                            max * TicksPerQuantum, coarseOf(min, max, step))} :
       call' = Sampling(which, call.text, call.parsed, min, max, step, stops,
                        cleaned(built(stops)))
  /\ UNCHANGED <<world, balls, stars, curves, preview, game, made, steps>>

CallSampleCurve(min, max, step) == CallSampler("sampleCurve", min, max, step)
CallSampleCurveY(min, max, step) == CallSampler("sampleCurveY", min, max, step)

CurveNext ==
  \/ CallParse
  \/ \E range \in Ranges, step \in Steps : CallSampleCurve(range[1], range[2], step)
  \/ \E range \in Ranges, step \in Steps : CallSampleCurveY(range[1], range[2], step)

CurveSpec == CurveInit /\ [][CurveNext]_vars

----------------------------------------------------------------------------
(* A long game in pro mode: CapSpec                                        *)
(* The player switches to pro mode, which clears the helper curve, draws   *)
(* a short shelf under the dropper and presses the launch button each time *)
(* the burst before has been spawned, before the next frame; the frame     *)
(* loop calls update(dt).  The balls come to lie on the shelf, so that the *)
(* list keeps growing.                                                     *)

\* frames run
MaxFrames == 470

\* the draws of the constructor and of setMode('pro')
FirstDraws == <<900, 500, 250, 750>>
ProDraws == <<100, 300, 800>>

\* "y = 7 {x > -3 && x < -2}": a shelf under the dropper of the pro level
tShelf == <<"y", " ", "=", " ", "7", " ", "{", "x", " ", ">", " ", "-", "3", " ", "&", "&", " ", "x", " ", "<", " ", "-", "2", "}">>

\* the last call when it was update: the balls at entry, the balls as
\* updateBalls left them, and whether the call threw
Frame(moved, res) ==
  [op |-> "update", text |-> <<>>, ok |-> TRUE, error |-> NoError,
   threw |-> res.threw, curves |-> curves, balls |-> balls, stars |-> stars,
   preview |-> preview, moved |-> moved]

CapInit ==
  \E c \in {construct(Canvas, FirstDraws)} :
     /\ ~c.threw
     /\ world = c.g.world
     /\ balls = c.g.balls
     /\ stars = c.g.stars
     /\ curves = c.g.curves
     /\ preview = c.g.preview
     /\ made = c.g.made
     /\ game = FieldsOf(c.g)
     /\ call = Other
     /\ steps = 0

\* levelSelect's change handler: game.setMode('pro')
CapSetMode ==
  /\ game.mode = "beginner"
  /\ \E res \in {setMode(TheGame, "pro", ProDraws)} :
        /\ ~res.threw
        /\ Becomes(res.g)
  /\ call' = Other
  /\ UNCHANGED steps

\* game.submitEquation("y = 7 {x > -3 && x < -2}")
CapSubmit ==
  /\ game.mode = "pro"
  /\ curves = <<>>
  /\ \E res \in {submitEquation(TheGame, tShelf)} :
        /\ Becomes(res.g)
        /\ call' = Submission(tShelf, res)
  /\ UNCHANGED steps

\* the launch button: game.launchBurst(20)
CapLaunch ==
  /\ game.mode = "pro"
  /\ curves # <<>>
  /\ ~game.launched
  /\ Becomes(launchBurst(TheGame, 20))
  /\ call' = Other
  /\ UNCHANGED steps

\* frame(now): game.update(dt)
CapUpdate(dt) ==
  /\ game.loop
  /\ steps < MaxFrames
  /\ game.launched
  /\ \E spawned \in {spawnStep(TheGame, dt)} :
       \E moved \in {movedBalls(spawned, dt)} :
          \E res \in {updateMoved(spawned, moved, ProDraws)} :
             /\ Becomes([res.g EXCEPT !.loop = ~res.threw])
             /\ call' = Frame(moved, res)
  /\ steps' = steps + 1

CapNext ==
  \/ CapSetMode
  \/ CapSubmit
  \/ CapLaunch
  \/ \E dt \in FrameDts : CapUpdate(dt)

CapSpec == CapInit /\ [][CapNext]_vars

----------------------------------------------------------------------------
(* The methods of the Game called directly: GameSpec                       *)
(* A caller constructs a Game and calls setMode, reset, submitEquation,    *)
(* launchBurst and update(dt) in any order.  A method that throws leaves   *)
(* the Game as it was at the throw, and the caller goes on.  The caller    *)
(* lets a burst run: it calls update while the burst is running, and       *)
(* after it while a ball is left, MaxUpdates times in all, and makes its   *)
(* other calls between bursts, launchBurst when no ball is left.           *)

\* bounds of the state space: calls of update while balls are in flight,
\* balls constructed
MaxUpdates == 18
MaxMade == 2

\* the counts passed to launchBurst
GameCounts == {0, 1, 2}

\* sequences of Math.random() draws, in thousandths.  In beginner mode: a
\* quadratic pattern, a sinusoidal pattern, a linear pattern of slope 0.5.
\* In pro mode the third places every star at (0, 4.7936), under the dropper
GameDraws == { <<100, 300, 800>>, <<500, 250, 750>>, <<999, 500>> }

\* "y = x - 3"
tLine == <<"y", " ", "=", " ", "x", " ", "-", " ", "3">>

\* no burst is running, and no ball is left or update has been called
\* MaxUpdates times since the first ball was launched
Settled == ~game.launched /\ (balls = <<>> \/ steps >= MaxUpdates)

\* the last call on the Game: its name and arguments, whether it threw, the
\* number of curves at entry, and for update what checkStarCollection
\* returned and the stars as it left them.  since is the dt passed to update
\* since the last spawn or launchBurst, burst the balls constructed since
\* the last launchBurst
Called(op, arg, dt, threw, count, checked, since, burst) ==
  [op |-> op, arg |-> arg, dt |-> dt, threw |-> threw, count |-> count,
   checked |-> checked, since |-> since, burst |-> burst, had |-> Len(curves)]

GameInit ==
  \E draws \in GameDraws :
    \E c \in {construct(Canvas, draws)} :
       /\ ~c.threw
       /\ world = c.g.world
       /\ balls = c.g.balls
       /\ stars = c.g.stars
       /\ curves = c.g.curves
       /\ preview = c.g.preview
       /\ made = c.g.made
       /\ game = FieldsOf(c.g)
       /\ call = [Called("new", <<>>, 0, FALSE, 0, <<>>, 0, 0) EXCEPT !.had = 0]
       /\ steps = 0

\* game.setMode(mode)
CallSetMode(mode) ==
  /\ Settled
  /\ \E draws \in GameDraws :
       \E res \in {setMode(TheGame, mode, draws)} :
          /\ Becomes(res.g)
          /\ call' = Called("setMode", mode, 0, res.threw, 0, <<>>, 0, 0)
  /\ steps' = 0

\* game.reset()
CallReset ==
  /\ Settled
  /\ \E draws \in GameDraws :
       \E res \in {reset(TheGame, draws)} :
          /\ Becomes(res.g)
          /\ call' = Called("reset", <<>>, 0, res.threw, 0, <<>>, 0, 0)
  /\ steps' = 0

\* game.submitEquation(text)
CallSubmitEquation(text) ==
  /\ Settled
  /\ Len(curves) < MaxCurves
  /\ \E res \in {submitEquation(TheGame, text)} :
        /\ Becomes(res.g)
        /\ call' = Called("submitEquation", text, 0, res.threw, 0, <<>>, 0, 0)
  /\ steps' = 0

\* game.launchBurst(count) when no burst is running
Relaunch(count) ==
  /\ ~game.launched
  /\ made + count <= MaxMade
  /\ Becomes(launchBurst(TheGame, count))
  /\ call' = Called("launchBurst", count, 0, FALSE, 0, <<>>, 0, 0)
  /\ steps' = IF balls = <<>> THEN 0 ELSE steps

\* game.launchBurst(count) when no ball is left
CallLaunchBurst(count) ==
  /\ balls = <<>>
  /\ Relaunch(count)

\* the caller has an update to make: a burst is running, or a ball is
\* left and update has not been called MaxUpdates times
Unsettled == game.launched \/ (balls # <<>> /\ steps < MaxUpdates)

\* game.update(dt)
CallUpdate(dt) ==
  /\ Unsettled
  /\ \E draws \in GameDraws :
       \E spawned \in {spawnStep(TheGame, dt)} :
         \E c \in {collected(physicsStep(spawned, dt))} :
           \E res \in {levelUp(c, draws)} :
              /\ Becomes(res.g)
              /\ call' = Called("update", <<>>, dt, res.threw, c.count, c.g.stars,
                                IF spawned.made > made THEN 0 ELSE call.since + dt,
                                call.burst + (spawned.made - made))
  /\ steps' = steps + 1

GameNext ==
  \/ \E mode \in {"beginner", "pro"} : CallSetMode(mode)
  \/ CallReset
  \/ CallSubmitEquation(tLine)
  \/ \E count \in GameCounts : CallLaunchBurst(count)
  \/ \E dt \in FrameDts : CallUpdate(dt)

GameSpec == GameInit /\ [][GameNext]_vars

----------------------------------------------------------------------------
(* Bursts one after the other: BurstSpec                                   *)
(* A caller constructs a Game and calls launchBurst whenever no burst is   *)
(* running, with balls of the burst before still in flight or not, and     *)
(* update; nothing else.  The frame loop goes on calling update            *)
(* (requestAnimationFrame), which is the fairness condition: update is the *)
(* one call that counts a step.                                            *)

BurstNext ==
  \/ \E count \in GameCounts : Relaunch(count)
  \/ \E dt \in FrameDts : CallUpdate(dt)

\* a call of update, as far as steps shows it
UpdateGoesOn == Unsettled /\ steps' = steps + 1

BurstSpec == GameInit /\ [][BurstNext]_vars /\ WF_steps(UpdateGoesOn)

----------------------------------------------------------------------------
(* Properties of updateBalls                                               *)

Ticked == call.op = "updateBalls"
Checked == call.op = "checkStarCollection"

\* ball i has the position and velocity it had when the last call began
SameMotion(i) ==
  /\ balls[i].x = call.balls[i].x
  /\ balls[i].y = call.balls[i].y
  /\ balls[i].vx = call.balls[i].vx
  /\ balls[i].vy = call.balls[i].vy

\* C2: a ball flagged out of bounds by an earlier updateBalls call has, after
\* every later updateBalls call with the same bounds, the x, y, vx and vy it
\* had before that call.
OobPermanence ==
  Ticked => \A i \in 1..Len(balls) : call.balls[i].oob => SameMotion(i)

\* C3: in the tick in which a ball is found out of bounds, the call sets the
\* flag, runs no contact search and no integration, and leaves x, y, vx, vy
\* as they were at entry.
OobTestComesFirst ==
  Ticked =>
    \A i \in 1..Len(balls) :
      call.info[i].kind = "oob" =>
        /\ balls[i].oob
        /\ ~call.info[i].best.found
        /\ SameMotion(i)

\* the two ends of the segment a contact record names
SegA(best) == curves[best.ci].points[best.si]
SegC(best) == curves[best.ci].points[best.si + 1]

\* the segment of the contact is horizontal
Horizontal(best) == SegA(best).y = SegC(best).y /\ SegA(best).x # SegC(best).x

\* the ball's centre is over the segment of the contact
OverSegment(b, best) ==
  /\ Min(SegA(best).x, SegC(best).x) <= b.x
  /\ b.x <= Max(SegA(best).x, SegC(best).x)

\* ball i was, in the last tick, in contact with a horizontal segment with
\* downward velocity
LandedFlat(i) ==
  /\ call.info[i].kind = "surface"
  /\ Horizontal(call.info[i].best)
  /\ call.balls[i].vy <= 0

\* at the end of the contact tick vy = 0 and vx is 0.995 times its value at
\* the start of the tick
NoNormalVelocity(i) ==
  /\ balls[i].vy = 0
  /\ balls[i].vx = MulDiv(call.balls[i].vx, Friction, PerMille)

\* the next tick, whatever its length, finds ball i in contact
StillInContact(i) ==
  \A dt \in Dts : updateBall(balls[i], dt, gravity, world, curves).kind = "surface"

\* C8 as stated: after a contact tick on a horizontal segment the normal
\* velocity is zero and vx is 0.995 of its start value, and the following tick
\* finds the ball in contact as long as its centre is over the segment.
NoBounceAsStated ==
  Ticked =>
    \A i \in 1..Len(balls) :
      LandedFlat(i) =>
        /\ NoNormalVelocity(i)
        /\ OverSegment(balls[i], call.info[i].best) => StillInContact(i)

\* C8 amended: the same, the following tick finding the ball in contact as
\* long as its centre is over the segment and the snap has not put it outside
\* the world bounds.
NoBounce ==
  Ticked =>
    \A i \in 1..Len(balls) :
      LandedFlat(i) =>
        /\ NoNormalVelocity(i)
        /\ (OverSegment(balls[i], call.info[i].best)
              /\ ~exitedBounds(balls[i], world)) => StillInContact(i)

\* a ball landed flat with sideways velocity, stayed over the segment, and
\* the tick before was a contact tick too
NoBounceWitness ==
  /\ Ticked
  /\ \E i \in 1..Len(balls) :
       /\ LandedFlat(i)
       /\ call.balls[i].vx # 0
       /\ call.balls[i].vy < 0
       /\ OverSegment(balls[i], call.info[i].best)
       /\ ~exitedBounds(balls[i], world)

\* tangential projection of the velocity of b on the tangent of best
Tangential(b, best) == MulDiv(b.vx, best.tx, Unit) + MulDiv(b.vy, best.ty, Unit)

\* C9: in an OnSurface tick the tangential speed after the tick is
\* 0.995 * (vt + gravity*ty*dt), vt the tangential projection of the velocity
\* at the start of the tick: gravity's projection is added once.  Stated up
\* to two quanta per second of rounding.
GravityAddedOnce ==
  Ticked =>
    \A i \in 1..Len(balls) :
      call.info[i].kind = "surface" =>
        LET best == call.info[i].best
            vt == Tangential(call.balls[i], best)
            gt == MulDiv(gravity, best.ty, Unit)
            want == MulDiv(vt + MulDiv(gt, call.dt, PerMille), Friction, PerMille)
        IN Abs(Tangential(balls[i], best) - want) <= 2

\* the segments within contact range of ball b, as <<curve, segment>>
Qualifying(b) ==
  { cs \in UNION { {<<ci, si>> : si \in 1..(Len(curves[ci].points) - 1)} :
                      ci \in 1..Len(curves) } :
      qualifies(b, curves[cs[1]].points[cs[2]], curves[cs[1]].points[cs[2] + 1]) }

\* cs comes no earlier than ds in iteration order
NotBefore(cs, ds) == cs[1] > ds[1] \/ (cs[1] = ds[1] /\ cs[2] >= ds[2])

\* distance from ball b to segment cs
DistTo(b, cs) ==
  contactOf(b, curves[cs[1]].points[cs[2]], curves[cs[1]].points[cs[2] + 1],
            cs[1], cs[2]).dist

----------------------------------------------------------------------------
(* Properties of checkStarCollection                                       *)

\* the centre of b is at distance <= d from s
Within(b, s, d) ==
  LET dx == b.x - s.x
      dy == b.y - s.y
  IN Abs(dx) <= d /\ Abs(dy) <= d /\ dx * dx + dy * dy <= d * d

\* some ball of the list bs is within b.r + radius of s
SomeBallNear(bs, s, radius) ==
  \E i \in 1..Len(bs) : Within(bs[i], s, bs[i].r + radius)

\* C4: after checkStarCollection a star is collected iff it was collected
\* before the call or some ball is within ball.r + R of it.
CollectedIff ==
  Checked =>
    \A j \in 1..Len(stars) :
      stars[j].collected <=>
        (call.stars[j].collected \/ SomeBallNear(call.balls, call.stars[j], call.radius))

\* a call that collected one star and left another, with no ball near, alone
CollectedIffWitness ==
  /\ Checked
  /\ \E j \in 1..Len(stars) : ~call.stars[j].collected /\ stars[j].collected
  /\ \E j \in 1..Len(stars) : ~stars[j].collected

\* C5: over any sequence of calls, ball movement, removal and spawning, a
\* star whose collected flag is true never has it set back to false.
CollectionIrreversible ==
  [][\A j \in 1..Len(stars) : stars[j].collected => stars'[j].collected]_vars

\* a check made on a star collected earlier, with no ball near it any more
CollectionIrreversibleWitness ==
  /\ Checked
  /\ \E j \in 1..Len(stars) :
       /\ call.stars[j].collected
       /\ stars[j].collected
       /\ ~SomeBallNear(call.balls, call.stars[j], call.radius)

\* C7: count is the number of stars collected when the call returns, and
\* newlyCollected holds iff some star went from uncollected to collected.
CountAndFlag ==
  Checked =>
    /\ call.count = Cardinality({j \in 1..Len(stars) : stars[j].collected})
    /\ call.newly <=>
         \E j \in 1..Len(stars) : ~call.stars[j].collected /\ stars[j].collected

\* a call that collected a new star while another was collected already
CountAndFlagWitness ==
  /\ Checked
  /\ call.newly
  /\ call.count >= 2
  /\ \E j \in 1..Len(stars) : call.stars[j].collected

\* the permutations of 1..n
Perms(n) == { f \in [1..n -> 1..n] : \A a, b \in 1..n : f[a] = f[b] => a = b }
Permuted(seq, f) == [k \in 1..Len(seq) |-> seq[f[k]]]

\* what a call returns and leaves behind, by object rather than by position
StarsCollected(res) ==
  { <<res.stars[j].x, res.stars[j].y>> : j \in {k \in 1..Len(res.stars) : res.stars[k].collected} }
BallsMarked(res) ==
  { res.balls[i].id : i \in {k \in 1..Len(res.balls) : res.balls[k].collected} }

SameStarsAndReturn(r1, r2) ==
  /\ StarsCollected(r1) = StarsCollected(r2)
  /\ r1.count = r2.count
  /\ r1.newly = r2.newly

\* C6 as stated: every permutation of the balls and of the stars gives the
\* same collected stars, the same marked balls, the same count and flag.
OrderIndependentAsStated ==
  Checked =>
    LET r0 == checkStarCollection(call.balls, call.stars, call.radius)
    IN \A f \in Perms(Len(call.balls)) : \A h \in Perms(Len(call.stars)) :
         LET r1 == checkStarCollection(Permuted(call.balls, f),
                                       Permuted(call.stars, h), call.radius)
         IN SameStarsAndReturn(r0, r1) /\ BallsMarked(r0) = BallsMarked(r1)

\* C6 amended: every permutation of the balls and of the stars gives the same
\* collected stars, count and flag; the marked balls are the same for every
\* permutation of the stars (they depend on the order of the balls: a newly
\* collected star marks the first ball in list order within reach).
OrderIndependent ==
  Checked =>
    LET r0 == checkStarCollection(call.balls, call.stars, call.radius)
    IN /\ \A f \in Perms(Len(call.balls)) : \A h \in Perms(Len(call.stars)) :
            SameStarsAndReturn(r0,
              checkStarCollection(Permuted(call.balls, f),
                                  Permuted(call.stars, h), call.radius))
       /\ \A h \in Perms(Len(call.stars)) :
            BallsMarked(r0) =
              BallsMarked(checkStarCollection(call.balls,
                                              Permuted(call.stars, h), call.radius))

\* a call with two balls within reach of one star and a ball within reach of
\* two stars
OrderIndependentWitness ==
  /\ Checked
  /\ call.newly
  /\ \E j \in 1..Len(call.stars) : \E i1, i2 \in 1..Len(call.balls) :
       /\ i1 # i2
       /\ ~call.stars[j].collected
       /\ Within(call.balls[i1], call.stars[j], call.balls[i1].r + call.radius)
       /\ Within(call.balls[i2], call.stars[j], call.balls[i2].r + call.radius)
  /\ \E i \in 1..Len(call.balls) : \E j1, j2 \in 1..Len(call.stars) :
       /\ j1 # j2
       /\ ~call.stars[j1].collected /\ ~call.stars[j2].collected
       /\ Within(call.balls[i], call.stars[j1], call.balls[i].r + call.radius)
       /\ Within(call.balls[i], call.stars[j2], call.balls[i].r + call.radius)

----------------------------------------------------------------------------
(* Properties of Game.submitEquation                                       *)

Submitted == call.op = "submitEquation"

\* the text parses: parseEquationToFunction returns instead of throwing
Parses(text) == parseEquationToFunction(text).ok

\* the curve list is the list at entry with exactly one curve added at the
\* end, the curve of the parsed text
OneCurveAppended ==
  /\ Len(curves) = Len(call.curves) + 1
  /\ \A k \in 1..Len(call.curves) : curves[k] = call.curves[k]
  /\ curves[Len(curves)].expr = parseEquationToFunction(call.text).expr

\* an Error's message: the text of the message, then the identifier named
IsMessage(error) == ~error.ok /\ error.msg # ""

\* C1: after Game.submitEquation(text): when the text parses, exactly one
\* new curve has been appended at the end of the curve list, every earlier
\* curve is in place and unchanged, and the call returned ok = true; when
\* the text is rejected, the curve list, the balls, the stars and the
\* preview are unchanged, the call did not throw, and it returned
\* ok = false with an error message.
SubmitContract ==
  Submitted =>
    /\ ~call.threw
    /\ IF Parses(call.text)
         THEN call.ok /\ OneCurveAppended
         ELSE /\ ~call.ok
              /\ IsMessage(call.error)
              /\ curves = call.curves
              /\ balls = call.balls
              /\ stars = call.stars
              /\ preview = call.preview

\* a rejected submission, made when an earlier submission had added a
\* curve to the helper's, a ball was in flight and a preview was showing
SubmitContractWitness ==
  /\ Submitted
  /\ ~call.ok
  /\ Len(curves) >= 2
  /\ Len(balls) >= 1
  /\ ~preview.nul

----------------------------------------------------------------------------
(* Properties of sampleCurve and sampleCurveY                              *)

\* the last call was sampleCurve or sampleCurveY
Sampled == call.op \in {"sampleCurve", "sampleCurveY"}

\* the evaluator threw or returned something that is not a finite number
\* within MAX_Y, or the domain predicate failed, at the tick t
Invalid(which, fn, t) ==
  \/ evaluate(fn.f, argumentAt(which, ToQuanta(t))).k \in {"throw", "nan", "big", "fn"}
  \/ /\ fn.hasCond
     /\ ~condAt(which, fn.cond, ToQuanta(t),
                evaluate(fn.f, argumentAt(which, ToQuanta(t))).v)

\* the ticks at which the sampler got null from safeEval and broke off
EvaluatedNulls(stops) == UNION {stops[k].nulls : k \in 1..Len(stops)}

\* elements k and k + 1 of out are two points with no break between them
Joined(out, k) == k < Len(out) /\ ~out[k].nul /\ ~out[k + 1].nul

\* the point that follows point k of out, when at most one break is between
Following(out, k) == IF k < Len(out) /\ out[k + 1].nul THEN k + 2 ELSE k + 1

\* C11: the sampler returns whatever the evaluator does; no point of the
\* polyline is at an input where the evaluator threw, returned a value that
\* is not finite or is beyond MAX_Y, or the predicate failed; the points are
\* in the order of their inputs, and no input at which the sampler got null
\* lies between two points that have no break between them.
InvalidNeverDrawn ==
  Sampled =>
    /\ \A k \in 1..Len(call.out) :
         ~call.out[k].nul =>
           /\ ~Invalid(call.op, call.parsed, call.out[k].t)
           /\ Following(call.out, k) <= Len(call.out) =>
                call.out[k].t < call.out[Following(call.out, k)].t
    /\ \A n \in EvaluatedNulls(call.stops) :
         /\ Invalid(call.op, call.parsed, n)
         /\ \A k \in 1..Len(call.out) :
              Joined(call.out, k) => ~(call.out[k].t < n /\ n < call.out[k + 1].t)

\* a null between two points of the polyline, with the break in its place;
\* and a call in which the evaluator threw at every input
InvalidNeverDrawnWitness ==
  /\ Sampled
  /\ \/ \E k \in 2..(Len(call.out) - 1) :
          /\ call.out[k].nul
          /\ \E n \in EvaluatedNulls(call.stops) :
                call.out[k - 1].t < n /\ n < call.out[k + 1].t
     \/ /\ call.text = cFree
        /\ call.stops # <<>>
        /\ call.out = <<>>

\* C12: the sequence sampleCurve or sampleCurveY returns does not begin
\* with a break, has no two breaks next to each other, and has no two
\* points next to each other at the same place (two places of the model
\* that differ are more than 1e-9 apart); the breaks of the points
\* returned are those of the polyline.
PolylineInvariant ==
  Sampled =>
    /\ Len(call.out) > 0 => ~call.out[1].nul
    /\ \A k \in 1..(Len(call.out) - 1) :
         /\ ~(call.out[k].nul /\ call.out[k + 1].nul)
         /\ Joined(call.out, k) =>
              call.out[k].t # call.out[k + 1].t \/ call.out[k].v # call.out[k + 1].v
    /\ Len(call.points) = Len(call.out)
    /\ \A k \in 1..Len(call.out) : (call.points[k] = Null) <=> call.out[k].nul

\* the sampler's pts began with a break, which the clean-up dropped, and
\* the polyline returned has points
PolylineInvariantWitness ==
  /\ Sampled
  /\ call.stops # <<>>
  /\ call.stops[1].brk
  /\ Len(call.out) > 1

\* the breaks of the polyline
Breaks(out) == {k \in 1..Len(out) : out[k].nul}

\* C13: for f(x) = 1/x and a range with min < 0 < max, the polyline
\* sampleCurve returns has exactly one break, every point before the break
\* has x < 0 and every point after it x > 0, so that no segment joins a
\* point with x < 0 to a point with x > 0, and every point is finite.
OneBreakAtZero ==
  Sampled /\ call.op = "sampleCurve" /\ call.text = cReciprocal
          /\ call.min < 0 /\ 0 < call.max =>
    /\ Cardinality(Breaks(call.out)) = 1
    /\ \A k \in 1..Len(call.out) : \A b \in Breaks(call.out) :
         /\ k < b => call.out[k].t < 0
         /\ k > b => call.out[k].t > 0
    /\ \A k \in 1..Len(call.out) :
         /\ Joined(call.out, k) => ~(call.out[k].t < 0 /\ 0 < call.out[k + 1].t)
         /\ ~call.out[k].nul => ~Invalid(call.op, call.parsed, call.out[k].t)

\* the texts that are polynomials in x without a condition
Polynomials ==
  {cSquare, cCubic, cDigitVar, cDigitVarStar, cVarDigit, cVarDigitStar, cVarParen,
   cVarParenStar, cParenVar, cParenVarStar, cParenParen, cParenParenStar}

\* C14: for a polynomial with no condition and a range min <= max, the
\* polyline sampleCurve returns is one unbroken run: it has no break, its
\* first point is at min and its last point is at max.
PolynomialUnbroken ==
  Sampled /\ call.op = "sampleCurve" /\ call.text \in Polynomials
          /\ ~call.parsed.hasCond /\ call.min <= call.max =>
    /\ Breaks(call.out) = {}
    /\ Len(call.out) > 0
    /\ call.out[1].t = call.min * TicksPerQuantum
    /\ call.out[Len(call.out)].t = call.max * TicksPerQuantum

\* the midpoint error of an accepted stop: |f(mid) - the chord at mid|
MidpointError(stop) ==
  Abs(stop.vm - chordAt(stop.t0, stop.v0, stop.t1, stop.v1, stop.tm))

\* C15: every interval subdivide accepts as a straight segment has a
\* midpoint error of at most TOL.
AcceptedWithinTol ==
  Sampled =>
    \A k \in 1..Len(call.stops) :
      ~call.stops[k].brk /\ call.stops[k].t0 # call.stops[k].t1 =>
        MidpointError(call.stops[k]) <= TOL

----------------------------------------------------------------------------
(* Properties of parseEquationToFunction                                   *)

\* the normalized expression of a text: sanitizeExpression of the part
\* before the condition clause
NormalizedOf(text) == sanitizeExpression(extractCondition(trim(text)).base)

\* the expression has a character outside the allowed set
DisallowedChar(expr) == \E k \in 1..Len(expr) : ~ExpressionChar(expr[k])

\* the identifier tokens of the expression that are not in the whitelist
UnknownIn(expr) == {id \in Range(identifiers(expr)) : ~IsAllowed(id)}

\* the text has no condition clause, or one that passes validateCondition
\* and compiles
ConditionPasses(text) ==
  LET ex == extractCondition(trim(text))
      condExpr == sanitizeExpression(ex.condSrc)
  IN (ex.has /\ Len(ex.condSrc) > 0) =>
        validateCondition(condExpr).ok /\ compile(condExpr).st = "ok"

\* the submitted text is one the validation has to reject, and the call
\* returned ok = false without throwing and without the expression having
\* been handed to new Function
RejectedUnbuilt ==
  /\ ~call.ok
  /\ ~call.threw
  /\ "f" \notin parseEquationToFunction(call.text).compiled

\* C16 as stated: every text whose normalized expression has a character
\* outside the allowed set or an identifier outside the whitelist is
\* rejected before the evaluator is built, submitEquation returns ok = false
\* instead of throwing, and whenever the expression has an unknown
\* identifier the message names an unknown identifier of the expression.
UnknownNamedAsStated ==
  LET expr == NormalizedOf(call.text)
  IN (Submitted /\ (DisallowedChar(expr) \/ UnknownIn(expr) # {})) =>
       /\ RejectedUnbuilt
       /\ UnknownIn(expr) # {} =>
            /\ call.error.msg = "Unknown identifier: "
            /\ call.error.id \in UnknownIn(expr)

\* C16: every text whose normalized expression has a character outside the
\* allowed set or an identifier outside the whitelist is rejected before
\* the evaluator is built, and submitEquation returns ok = false instead of
\* throwing; when the expression has only allowed characters and the
\* condition clause, if there is one, is valid and compiles, the message is
\* "Unknown identifier: " followed by the first unknown identifier of the
\* expression.
UnknownNamed ==
  LET expr == NormalizedOf(call.text)
  IN (Submitted /\ (DisallowedChar(expr) \/ UnknownIn(expr) # {})) =>
       /\ RejectedUnbuilt
       /\ (UnknownIn(expr) # {} /\ ~DisallowedChar(expr) /\ ConditionPasses(call.text)) =>
            /\ call.error.msg = "Unknown identifier: "
            /\ call.error.id \in UnknownIn(expr)
            /\ call.error.id = firstUnknown(identifiers(expr), 1)

\* "y = foo(" has been submitted and rejected naming foo
UnknownNamedWitness ==
  /\ Submitted
  /\ call.text = tUnknownOpen
  /\ ~call.ok
  /\ call.error.id = <<"f", "o", "o">>

----------------------------------------------------------------------------
(* Properties of sanitizeExpression                                        *)

\* a text with an implicit multiplication, and the same text with the "*"
\* written: one pair for each replacement, and one for x as a function of y
ImplicitPairs ==
  { <<cDigitVar, cDigitVarStar>>, <<cVarDigit, cVarDigitStar>>,
    <<cVarParen, cVarParenStar>>, <<cParenVar, cParenVarStar>>,
    <<cParenParen, cParenParenStar>>, <<cSideDigitVar, cSideDigitVarStar>> }

\* the inputs the evaluators are compared at, in world units
CompareAt == {0, 1, -5, 100}

\* parsed.f(v), v in world units
valueAt(parsed, v) ==
  evaluate(parsed.f,
           argumentAt(IF parsed.type = "xOfY" THEN "sampleCurveY" ELSE "sampleCurve",
                      v * Unit))

\* the text has been parsed
ParsedCall == call.op # "typed"

\* C17: for each of the five implicit-multiplication replacements, the
\* text with the implicit product and the text with "*" written parse to
\* the same normalized expression, and the two compiled evaluators return
\* the same number at 0, 1, -5 and 100 ("y = 2x + 3" gives 3, 5, -7, 203).
ImplicitMultiplication ==
  \A pair \in ImplicitPairs :
     (ParsedCall /\ call.text = pair[1]) =>
        LET star == parseEquationToFunction(pair[2])
        IN /\ call.parsed.ok
           /\ star.ok
           /\ call.parsed.expr = star.expr
           /\ call.parsed.type = star.type
           /\ \A v \in CompareAt :
                 /\ valueAt(call.parsed, v).k = "num"
                 /\ valueAt(call.parsed, v) = valueAt(star, v)
           /\ call.text = cDigitVar =>
                 \A v \in CompareAt : valueAt(call.parsed, v) = Num((2 * v + 3) * Unit)

\* "y = (x + 1)(x - 1)" has been parsed: its evaluator gives 9999 at 100
ImplicitMultiplicationWitness ==
  /\ ParsedCall
  /\ call.text = cParenParen
  /\ call.parsed.ok
  /\ valueAt(call.parsed, 100) = Num(9999 * Unit)

----------------------------------------------------------------------------
(* Properties of Game.setPreviewEquation                                   *)

Previewed == call.op = "setPreviewEquation"

\* the curve submitEquation would push for the text on the Game as it is
StoredFor(text) ==
  LET res == submitEquation(TheGame, text)
  IN res.g.curves[Len(res.g.curves)]

\* C18: after Game.setPreviewEquation(text) the curve list, the balls and
\* the stars are as they were at entry and nothing was thrown; for a text
\* that is empty or blank, or that the parser rejects, the preview is null;
\* for an accepted text the preview holds the expression and the polyline
\* that submitEquation stores for that text.
PreviewContract ==
  Previewed =>
    /\ ~call.threw
    /\ curves = call.curves
    /\ balls = call.balls
    /\ stars = call.stars
    /\ IF Len(trim(call.text)) = 0 \/ ~Parses(call.text)
         THEN preview = NoPreview
         ELSE /\ ~preview.nul
              /\ preview.expr = StoredFor(call.text).expr
              /\ preview.points = StoredFor(call.text).points
              /\ Len(preview.points) > 1

\* a rejected text has been typed while a preview was showing, a curve was
\* in the list and a ball was in flight: the preview has gone
PreviewContractWitness ==
  /\ Previewed
  /\ call.text = tUnknown
  /\ ~call.preview.nul
  /\ preview.nul
  /\ Len(curves) >= 1
  /\ Len(balls) >= 1

----------------------------------------------------------------------------
(* Properties of Game.update                                               *)

Updated == call.op = "update"

\* the balls that pass the filter, in the order of the list
Survivors == SelectSeq(call.moved, LAMBDA b : staysInWorld(TheGame, b))

\* the last n elements of a list
LastOf(seq, n) == SubSeq(seq, Len(seq) - n + 1, Len(seq))

\* the identities of the balls of a list, in order
IdsOf(bs) == [i \in 1..Len(bs) |-> bs[i].id]

\* C19: after every Game.update call the list holds at most 150 balls and
\* the call did not throw: the list is the balls that were still inside the
\* world after the physics step, or the newest 150 of them when there were
\* more, in their order.
BallCapHolds ==
  Updated =>
    /\ ~call.threw
    /\ Len(balls) <= BallCap
    /\ Len(balls) = Min(BallCap, Len(Survivors))
    /\ IdsOf(balls) = IdsOf(LastOf(Survivors, Len(balls)))

\* an update that found more than 150 balls inside the world and dropped
\* the oldest
BallCapHoldsWitness ==
  /\ Updated
  /\ Len(Survivors) > BallCap
  /\ Len(balls) = BallCap
  /\ balls[1].id = Survivors[1].id + 1

----------------------------------------------------------------------------
(* Properties of the snap in updateBalls                                   *)

\* rounding allowed in a position, in quanta
SnapRounding == 3 * SnapEps

\* ball i of the last updateBalls call was handled on a surface
OnSurface(i) == Ticked /\ i \in 1..Len(call.balls) /\ call.info[i].kind = "surface"

\* where the snap put ball i
SnappedTo(i) == snapped(call.balls[i], call.info[i].best)

\* the snap moved ball i along the normal of the contact only: the
\* displacement has no component along the tangent
AlongNormal(i) ==
  LET best == call.info[i].best
      s == SnappedTo(i)
  IN Abs(MulDiv(s.x - call.balls[i].x, best.tx, Unit)
           + MulDiv(s.y - call.balls[i].y, best.ty, Unit)) <= SnapRounding

\* the distance from where the snap put ball i to the segment of the contact
SnapDistance(i) ==
  LET best == call.info[i].best
      s == SnappedTo(i)
      q == closestPointOnSegment(s.x, s.y, SegA(best).x, SegA(best).y,
                                 SegC(best).x, SegC(best).y)
  IN Hypot(s.x - q.x, s.y - q.y)

\* the closest point of the contact is an end of its segment
AtEndpoint(best) ==
  \/ (best.q.x = SegA(best).x /\ best.q.y = SegA(best).y)
  \/ (best.q.x = SegC(best).x /\ best.q.y = SegC(best).y)

\* C20: in every tick that handles a ball on a surface, the snap moves the
\* ball along the contact normal only, and leaves its centre at the radius
\* plus the snap epsilon from the contact segment, whether the closest
\* point is inside the segment or one of its ends.
SnapToRadius ==
  \A i \in 1..Len(call.balls) :
     OnSurface(i) =>
        /\ AlongNormal(i)
        /\ Abs(SnapDistance(i) - (call.balls[i].r + SnapEps)) <= SnapRounding

----------------------------------------------------------------------------
(* Properties of the broad phase in updateBalls                            *)

\* every pair of consecutive entries of the polylines, as <<curve, index>>
Pairs ==
  UNION { {<<ci, si>> : si \in 1..(Len(curves[ci].points) - 1)} :
            ci \in 1..Len(curves) }

\* the centre of b is more than a world unit outside the box of a-c in x or
\* in y, and so more than a world unit from every point of the segment
FarFrom(b, a, c) ==
  \/ b.x < Min(a.x, c.x) - Unit
  \/ b.x > Max(a.x, c.x) + Unit
  \/ b.y < Min(a.y, c.y) - Unit
  \/ b.y > Max(a.y, c.y) + Unit

\* the pairs of two points, no break marker, whose segment has its closest
\* point within radius + 0.02 of the centre of b; the distance is computed
\* for every segment the ball is not a world unit away from
WithinContact(b) ==
  { cs \in Pairs :
      LET a == curves[cs[1]].points[cs[2]]
          c == curves[cs[1]].points[cs[2] + 1]
      IN /\ ~a.nul
         /\ ~c.nul
         /\ ~FarFrom(b, a, c)
         /\ Hypot(b.x - closestPointOnSegment(b.x, b.y, a.x, a.y, c.x, c.y).x,
                  b.y - closestPointOnSegment(b.x, b.y, a.x, a.y, c.x, c.y).y)
              <= b.r + ContactMargin }

\* C21: in a tick a ball inside the bounds is handled on a surface exactly
\* when some pair of consecutive points, neither a break marker, forms a
\* segment whose closest point is within radius + 0.02 of its centre: the
\* bounding-box test rejects no such segment, and the segment used is never
\* a pair with a break marker in it.
BroadPhaseComplete ==
  Ticked =>
    \A i \in 1..Len(call.balls) :
       call.info[i].kind # "oob" =>
         LET g == applyGravity(call.balls[i], call.dt, gravity)
             best == call.info[i].best
         IN /\ (call.info[i].kind = "surface") <=> (WithinContact(g) # {})
            /\ call.info[i].kind = "surface" =>
                 /\ ~SegA(best).nul
                 /\ ~SegC(best).nul
                 /\ <<best.ci, best.si>> \in WithinContact(g)

\* a tick that handled one ball on a segment next to the break marker of
\* its polyline, and another ball in free flight
BroadPhaseCompleteWitness ==
  /\ Ticked
  /\ \E i \in 1..Len(call.balls) :
       /\ call.info[i].kind = "surface"
       /\ call.info[i].best.si > 1
       /\ curves[call.info[i].best.ci].points[call.info[i].best.si - 1].nul
  /\ \E i \in 1..Len(call.balls) : call.info[i].kind = "free"

----------------------------------------------------------------------------
(* Properties of sampleCurveY against sampleCurve                          *)

\* the expression n with the parameters x and y exchanged: a function of
\* its first argument is the same function whatever the parameter is called
RECURSIVE Exchanged(_)
Exchanged(n) ==
  IF n.k = "id"
    THEN (IF n.s = "x" THEN [n EXCEPT !.s = "y"]
          ELSE IF n.s = "y" THEN [n EXCEPT !.s = "x"]
          ELSE n)
    ELSE [n EXCEPT !.a = [k \in 1..Len(n.a) |-> Exchanged(n.a[k])]]

\* the evaluator g handed to the other sampler, with the domain predicate
\* c'(a, b) = c(b, a)
Mirrored(fn) == [fn EXCEPT !.f = Exchanged(fn.f), !.cond = Exchanged(fn.cond)]

\* a polyline with the x and y of every point exchanged, breaks in place
Swapped(points) ==
  [k \in 1..Len(points) |->
     IF points[k].nul THEN points[k] ELSE Pt(points[k].y, points[k].x)]

\* what the other sampler returns for the mirrored function and the
\* arguments of the last call
OtherSampler ==
  IF call.op = "sampleCurveY"
    THEN sampleCurve(Mirrored(call.parsed), call.min, call.max, call.step)
    ELSE sampleCurveY(Mirrored(call.parsed), call.min, call.max, call.step)

----------------------------------------------------------------------------
(* Properties of reset and setMode                                         *)

\* the last call was reset() or setMode('beginner' | 'pro')
Reseeded == call.op \in {"reset", "setMode"}

\* the one curve of the list is the helper seeded from the target line
HelperOnly ==
  /\ Len(curves) = 1
  /\ game.beginnerLine.type = "linear"
  /\ curves[1].expr = parseEquationToFunction(helperEquation(game.beginnerLine)).expr

\* C23: reset() and setMode('beginner' | 'pro') complete without throwing
\* and destroy every curve submitted before: afterwards the list is empty in
\* pro mode and holds the seeded helper alone in beginner mode, whichever
\* star pattern generateStars chose.
ReseedCompletes ==
  Reseeded =>
    /\ ~call.threw
    /\ game.mode = "pro" => curves = <<>>
    /\ game.mode = "beginner" => HelperOnly

----------------------------------------------------------------------------
(* Properties of the burst                                                 *)

\* the step is a call of update that constructs k balls
Spawns(k) == call'.op = "update" /\ made' = made + k

\* a step of the Game: update constructs no ball or one, and one only
\* while launched is true, fewer than burstTotal balls have been
\* constructed since launchBurst and the dt passed since the last spawn or
\* launchBurst, this call's included, has reached spawnInterval; the one
\* that makes the count leaves launched false; no other call constructs a
\* ball, and only launchBurst sets launched
BurstStep ==
  /\ made' # made => Spawns(1)
  /\ Spawns(1) =>
       /\ game.launched
       /\ call.burst < game.burstTotal
       /\ call.since + call'.dt >= spawnInterval
       /\ balls' # <<>>
       /\ call'.burst = game.burstTotal => ~game'.launched
  /\ (~game.launched /\ game'.launched) => call'.op = "launchBurst"

\* launchBurst(n) has returned
Launched(n) == call.op = "launchBurst" /\ call.arg = n

\* the burst of n is over: n balls constructed since launchBurst, and
\* launched false
BurstOver(n) == ~game.launched /\ game.burstTotal = n /\ call.burst = n

\* C24: after launchBurst(n), with update called again and again and no
\* other call in between, exactly n balls are spawned, at most one in a
\* call of update and none before spawnInterval of dt has passed since the
\* spawn before; the n-th spawn leaves launched false, and no ball is
\* spawned while launched is false.
BurstSpawning ==
  /\ [][BurstStep]_vars
  /\ \A n \in GameCounts : Launched(n) ~> BurstOver(n)

\* update has just spawned the second ball of a burst of two
BurstSpawningWitness ==
  /\ call.op = "update"
  /\ game.burstTotal = 2
  /\ call.burst = 2
  /\ call.since = 0
  /\ ~game.launched
  /\ Len(balls) = 2

----------------------------------------------------------------------------
(* Properties of the level                                                 *)

\* every star of a star set that is not empty is collected
AllCollected(ss) == Len(ss) > 0 /\ \A i \in 1..Len(ss) : ss[i].collected

\* a step of the Game: the level goes up by one in the calls of update whose
\* collection check leaves every star collected, and in no other step does
\* it change; with it come 5 + min(5, level) new stars, none collected, and
\* a burst that waits for launchBurst
LevelStep ==
  /\ game'.level >= game.level
  /\ game'.level # game.level => call'.op = "update"
  /\ call'.op = "update" =>
       (game'.level = game.level + 1 <=> AllCollected(call'.checked))
  /\ game'.level = game.level + 1 =>
       /\ Len(stars') = 5 + Min(5, game'.level)
       /\ \A i \in 1..Len(stars') : ~stars'[i].collected
       /\ game'.spawned = 0
       /\ game'.spawnTimer = 0
       /\ ~game'.launched

\* C25: update raises the level by exactly 1 if and only if, after the
\* tick's collection check, every star of a non-empty star set is collected;
\* the stars are then replaced by 5 + min(5, new level) uncollected stars
\* and the burst is reset; no call of update, reset, setMode, submitEquation
\* or launchBurst lowers the level.
LevelProgression == [][LevelStep]_vars

\* update has just found the last of the six stars of level 1 collected, in
\* pro mode, and set out the seven stars of level 2
LevelProgressionWitness ==
  /\ call.op = "update"
  /\ AllCollected(call.checked)
  /\ Len(call.checked) = 6
  /\ game.level = 2
  /\ game.mode = "pro"
  /\ Len(stars) = 7

====
